---- MODULE Spec2Model ----
(***************************************************************************)
(* The EventState store (createEventState with batch / setMany / setAsync  *)
(* / cancel / destroy) as a state machine.                                 *)
(*                                                                         *)
(* A path string "a.b.c" is the sequence of its segments <<"a","b","c">>   *)
(* (what path.split(".") yields); the empty sequence is the falsy path     *)
(* ('' or undefined).  A subscription key is a sequence too: "a.b.*" is    *)
(* <<"a","b","*">> and "*" is <<"*">>.                                     *)
(*                                                                         *)
(* A JavaScript value is a function from relative paths to cells: its own  *)
(* cell at <<>>, and, for an object, the cells of its members below.  A    *)
(* cell is a string: "{}" for an object, otherwise the primitive's text.   *)
(* The state tree is such a value, rooted at <<>>.                         *)
(***************************************************************************)
EXTENDS Integers, Sequences, FiniteSets, TLC

VARIABLES
    state,        \* the state tree (const state)
    listeners,    \* Map: subscription key -> Set of handlers, in insertion order
    asyncOps,     \* Map: path -> controller of the operation recorded there
    destroyed,    \* let destroyed
    batching,     \* let batching
    batchBuffer,  \* Map: path -> value, in insertion order, as a sequence of pairs
    frames,       \* the open batch(fn) calls of the caller: each one's wasBatching
    unsubs,       \* the unsubscribe closures callers hold: <<key, handler>>, <<key, handler, 2>>
    ops,          \* every setAsync call made so far, by controller
    lastOp,       \* the last call made on the store and how it ended
    plusDestroyed,\* let destroyed of the Plus facade put over the store
    log           \* what that call did, in order: tree writes and handler invocations

vars == <<state, listeners, asyncOps, destroyed, batching, batchBuffer,
          frames, unsubs, ops, lastOp, plusDestroyed, log>>

----------------------------------------------------------------------------
(* Bounds of the model *)

MaxSubs == 3        \* unsubscribe closures callers hold at any one time
MaxDepth == 2       \* batch(fn) calls open at once
MaxAsync == 2       \* setAsync calls made in one run

----------------------------------------------------------------------------
(* Values and paths *)

Prim(c) == [r \in {<<>>} |-> c]
UNDEF == Prim("undefined")
NULL == Prim("null")
EmptyObj == Prim("{}")

IsObjectCell(c) == c = "{}"
\* !x : undefined, null, 0, '' and false are falsy; objects and the rest are truthy
Falsy(c) == c \in {"undefined", "null", "0", "", "false"}
\* x == null
Nullish(c) == c \in {"undefined", "null"}

IsPrefix(p, q) == Len(p) <= Len(q) /\ SubSeq(q, 1, Len(p)) = p
Rest(p, q) == SubSeq(q, Len(p) + 1, Len(q))

\* the cell found at path q of tree t (undefined when nothing is there)
CellAt(t, q) == IF q \in DOMAIN t THEN t[q] ELSE "undefined"

\* the value found at path q of tree t
SubTree(t, q) ==
    IF q \notin DOMAIN t THEN UNDEF
    ELSE [r \in {Rest(q, x) : x \in {y \in DOMAIN t : IsPrefix(q, y)}} |-> t[q \o r]]

\* obj[key] = v, where obj is the object at the parent of path q
Assign(t, q, v) ==
    LET keep == {x \in DOMAIN t : ~IsPrefix(q, x)}
        new == {q \o r : r \in DOMAIN v}
    IN [x \in keep \cup new |-> IF x \in new THEN v[Rest(q, x)] ELSE t[x]]

----------------------------------------------------------------------------
(* The store's closure as one record, threaded through the code of a call.  *)
(* exc is the exception in flight ("none" when the code runs normally), ret *)
(* the value the call returns.                                              *)

Store ==
    [state |-> state, listeners |-> listeners, asyncOps |-> asyncOps,
     destroyed |-> destroyed, batching |-> batching, batchBuffer |-> batchBuffer,
     plusDestroyed |-> plusDestroyed, log |-> <<>>, exc |-> "none", ret |-> UNDEF]

Throw(S, e) == [S EXCEPT !.exc = e]
Return(S, v) == [S EXCEPT !.ret = v]

\* cur[key] = value
WriteEvent(path, value) ==
    [ev |-> "write", key |-> <<>>, h |-> "-", args |-> "-",
     path |-> path, value |-> value, old |-> UNDEF, seen |-> UNDEF]

\* A variant of destroy that leaves the async-operation record as it is
DestroyCall_KeepsOps(S) ==
    IF ~S.destroyed
    THEN [S EXCEPT !.destroyed = TRUE, !.batchBuffer = <<>>, !.listeners = <<>>]
    ELSE S

DestroyCall(S) ==
    IF ~S.destroyed
    THEN [S EXCEPT !.destroyed = TRUE, !.batchBuffer = <<>>,
                   !.asyncOps = <<>>, !.listeners = <<>>]
    ELSE S

\* the record of a call cb(value, detail) or cb(detail); seen is what get(path)
\* gives the handler as it starts
CallEvent(S, key, h, args, d) ==
    [ev |-> "call", key |-> key, h |-> h, args |-> args,
     path |-> d.path, value |-> d.value, old |-> d.oldValue,
     seen |-> SubTree(S.state, d.path)]

\* What the subscribed functions do when called.  h1 and h2 only look at the
\* store; hThrow throws; hDestroy calls store.destroy(); hSet reacts to a write
\* of another path with store.set(ReactPath, ReactValue), as a bridge does;
\* hSame answers a write of another value with store.set(path, ReactValue).
ReactPath == <<"r">>
ReactValue == Prim("1")

\* set and writeAndNotify reach each other through the handlers they call
RECURSIVE SetCall(_, _, _)
RECURSIVE WriteAndNotify(_, _, _)

HandlerBody(S, h, d) ==
    CASE h = "hThrow" -> Throw(S, "Error: handler")
      [] h = "hDestroy" -> DestroyCall(S)
      [] h = "hSet" -> IF d.path = ReactPath THEN S ELSE SetCall(S, ReactPath, ReactValue)
      [] h = "hSame" -> IF d.value = ReactValue THEN S ELSE SetCall(S, d.path, ReactValue)
      [] OTHER -> S

\* cb(value, detail) or cb(detail): the call is logged, then the handler runs
InvokeHandler(S, key, h, args, d) ==
    HandlerBody([S EXCEPT !.log = Append(@, CallEvent(S, key, h, args, d))], h, d)

\* listeners.get(key): the Set registered under key, in insertion order.  A key
\* with no Set and a key whose Set is empty notify nobody alike; both are <<>>.
ListenersAt(ls, key) == IF key \in DOMAIN ls THEN ls[key] ELSE <<>>

\* listeners.get(key)?.forEach(cb => cb(...)), from the i-th handler on
\* forEach runs over the Set object fetched before the loop: destroy() clears
\* the Map of Sets and leaves that Set as it is, and no handler here adds to or
\* deletes from a Set.  A handler that throws ends the loop.
RECURSIVE ForEachOf(_, _, _, _, _, _)
ForEachOf(S, set, key, i, args, d) ==
    IF S.exc # "none" \/ i > Len(set) THEN S
    ELSE ForEachOf(InvokeHandler(S, key, set[i], args, d), set, key, i + 1, args, d)

ForEachListener(S, key, i, args, d) ==
    ForEachOf(S, ListenersAt(S.listeners, key), key, i, args, d)

\* A variant that walks the ancestors from the innermost to the outermost
RECURSIVE NotifyParents_InnermostFirst(_, _, _, _)
NotifyParents_InnermostFirst(S, parts, i, d) ==
    IF i > Len(parts) THEN S
    ELSE NotifyParents_InnermostFirst(
             ForEachListener(S, Append(SubSeq(parts, 1, Len(parts) - i + 1), "*"), 1, "detail", d),
             parts, i + 1, d)

\* A variant that notifies the wildcard key of the immediate parent only
NotifyParents_ImmediateOnly(S, parts, i, d) ==
    ForEachListener(S, Append(parts, "*"), 1, "detail", d)

\* for (const p of parts) { parent = parent ? `${parent}.${p}` : p; ... `${parent}.*` ... }
RECURSIVE NotifyParents(_, _, _, _)
NotifyParents(S, parts, i, d) ==
    IF i > Len(parts) THEN S
    ELSE NotifyParents(
             ForEachListener(S, Append(SubSeq(parts, 1, i), "*"), 1, "detail", d),
             parts, i + 1, d)

\* A variant of the walk that puts a fresh object at every intermediate
RECURSIVE WalkParts_AlwaysCreate(_, _, _)
WalkParts_AlwaysCreate(t, parts, i) ==
    IF i > Len(parts) THEN [state |-> t, thrown |-> FALSE]
    ELSE WalkParts_AlwaysCreate(Assign(t, SubSeq(parts, 1, i), EmptyObj), parts, i + 1)

\* for (const p of parts) { if (!cur[p]) cur[p] = {}; cur = cur[p]; }
\* The module is strict code: creating a property on a primitive throws TypeError.
RECURSIVE WalkParts(_, _, _)
WalkParts(t, parts, i) ==
    IF i > Len(parts) THEN [state |-> t, thrown |-> FALSE]
    ELSE LET cur == SubSeq(parts, 1, i - 1)
             next == SubSeq(parts, 1, i)
         IN IF ~IsObjectCell(CellAt(t, cur)) THEN [state |-> t, thrown |-> TRUE]
            ELSE IF Falsy(CellAt(t, next))
                 THEN WalkParts(Assign(t, next, EmptyObj), parts, i + 1)
                 ELSE WalkParts(t, parts, i + 1)

\* A variant that notifies exact-path handlers only when the value changed
Notify_OnlyOnChange(S, path, parts, d) ==
    IF S.destroyed THEN S
    ELSE LET S1 == IF d.value = d.oldValue THEN S
                   ELSE ForEachListener(S, path, 1, "value,detail", d)
             S2 == IF Len(parts) > 0 THEN NotifyParents(S1, parts, 1, d) ELSE S1
         IN ForEachListener(S2, <<"*">>, 1, "detail", d)

\* A variant that leaves the global key to the nested paths, where a parent exists
Notify_GlobalWhenNested(S, path, parts, d) ==
    IF S.destroyed THEN S
    ELSE LET S1 == ForEachListener(S, path, 1, "value,detail", d)
         IN IF Len(parts) > 0
            THEN ForEachListener(NotifyParents(S1, parts, 1, d), <<"*">>, 1, "detail", d)
            ELSE S1

\* A variant in which a write bubbles to the exact-path handlers of the parent path
Notify_Bubbling(S, path, parts, d) ==
    IF S.destroyed THEN S
    ELSE LET S0 == ForEachListener(S, path, 1, "value,detail", d)
             S1 == IF Len(parts) > 0 THEN ForEachListener(S0, parts, 1, "value,detail", d) ELSE S0
             S2 == IF Len(parts) > 0 THEN NotifyParents(S1, parts, 1, d) ELSE S1
         IN ForEachListener(S2, <<"*">>, 1, "detail", d)

\* A variant that notifies the global key first
Notify_GlobalFirst(S, path, parts, d) ==
    IF S.destroyed THEN S
    ELSE LET S1 == ForEachListener(S, <<"*">>, 1, "detail", d)
             S2 == ForEachListener(S1, path, 1, "value,detail", d)
         IN IF Len(parts) > 0 THEN NotifyParents(S2, parts, 1, d) ELSE S2

\* if (!destroyed) { exact listeners; parent wildcards; global listeners }
Notify(S, path, parts, d) ==
    IF S.destroyed THEN S
    ELSE LET S1 == ForEachListener(S, path, 1, "value,detail", d)
             S2 == IF Len(parts) > 0 THEN NotifyParents(S1, parts, 1, d) ELSE S1
         IN ForEachListener(S2, <<"*">>, 1, "detail", d)

WriteAndNotify(S, path, value) ==
    LET parts == SubSeq(path, 1, Len(path) - 1)
        w == WalkParts(S.state, parts, 1)
    IN IF w.thrown \/ ~IsObjectCell(CellAt(w.state, parts))
       THEN Throw([S EXCEPT !.state = w.state], "TypeError")
       ELSE LET old == SubTree(w.state, path)
                S1 == [S EXCEPT !.state = Assign(w.state, path, value),
                                !.log = Append(@, WriteEvent(path, value))]
                d == [path |-> path, value |-> value, oldValue |-> old]
            IN Return(Notify(S1, path, parts, d), value)

\* A variant of the buffer in which a path written again moves to the end
BufferSet_MoveToEnd(buf, path, value) ==
    Append(SelectSeq(buf, LAMBDA e : e[1] # path), <<path, value>>)

\* batchBuffer.set(path, value): a Map keeps a key's first position
BufferSet(buf, path, value) ==
    IF \E i \in 1..Len(buf) : buf[i][1] = path
    THEN [i \in 1..Len(buf) |-> IF buf[i][1] = path THEN <<path, value>> ELSE buf[i]]
    ELSE Append(buf, <<path, value>>)

RECURSIVE WriteEntries(_, _, _)
WriteEntries(S, entries, i) ==
    IF i > Len(entries) \/ S.exc # "none" THEN S
    ELSE WriteEntries(WriteAndNotify(S, entries[i][1], entries[i][2]), entries, i + 1)

FlushBatch(S) ==
    WriteEntries([S EXCEPT !.batchBuffer = <<>>], S.batchBuffer, 1)

GetCall(S, path) ==
    IF S.destroyed THEN Throw(S, "Error: destroyed")
    ELSE IF path = <<>> THEN Return(S, S.state)
    ELSE IF \E i \in 1..Len(path) : Nullish(CellAt(S.state, SubSeq(path, 1, i - 1)))
         THEN Return(S, UNDEF)
         ELSE Return(S, SubTree(S.state, path))

\* A variant whose set writes through while a batch is open
SetCall_WriteThrough(S, path, value) ==
    IF S.destroyed THEN Throw(S, "Error: destroyed")
    ELSE IF path = <<>> THEN Return(S, value)
    ELSE WriteAndNotify(S, path, value)

\* A variant of set that tests the batching flag before the path
SetCall_BufferFirst(S, path, value) ==
    IF S.destroyed THEN Throw(S, "Error: destroyed")
    ELSE IF S.batching
         THEN Return([S EXCEPT !.batchBuffer = BufferSet(@, path, value)], value)
         ELSE IF path = <<>> THEN Return(S, value)
         ELSE WriteAndNotify(S, path, value)

SetCall(S, path, value) ==
    IF S.destroyed THEN Throw(S, "Error: destroyed")
    ELSE IF path = <<>> THEN Return(S, value)
    ELSE IF S.batching
         THEN Return([S EXCEPT !.batchBuffer = BufferSet(@, path, value)], value)
         ELSE WriteAndNotify(S, path, value)

\* A variant whose every batch flushes on return, nested or not
BatchFinally_AlwaysFlush(S, wasBatching, e) ==
    LET S1 == [S EXCEPT !.batching = wasBatching, !.exc = "none"]
        S2 == FlushBatch(S1)
    IN IF S2.exc # "none" THEN S2 ELSE Throw(S2, e)

\* the finally block of batch(fn), run with fn's outcome e
BatchFinally(S, wasBatching, e) ==
    LET S1 == [S EXCEPT !.batching = wasBatching, !.exc = "none"]
        S2 == IF ~S1.batching THEN FlushBatch(S1) ELSE S1
    IN IF S2.exc # "none" THEN S2 ELSE Throw(S2, e)

\* listeners.get(path).add(handler), creating the Set first when there is none
\* A variant that keeps listeners in a list and adds at every call
AddListener_AppendsAlways(ls, key, h) ==
    IF key \notin DOMAIN ls THEN [k \in DOMAIN ls \cup {key} |-> IF k = key THEN <<h>> ELSE ls[k]]
    ELSE [ls EXCEPT ![key] = Append(@, h)]

AddListener(ls, key, h) ==
    IF key \notin DOMAIN ls THEN [k \in DOMAIN ls \cup {key} |-> IF k = key THEN <<h>> ELSE ls[k]]
    ELSE IF \E i \in 1..Len(ls[key]) : ls[key][i] = h THEN ls
    ELSE [ls EXCEPT ![key] = Append(@, h)]

SubscribeCall(S, key, h, isFunction) ==
    IF S.destroyed THEN Throw(S, "Error: destroyed")
    ELSE IF key = <<>> \/ ~isFunction THEN Throw(S, "TypeError")
    ELSE [S EXCEPT !.listeners = AddListener(@, key, h)]

\* listeners.get(path)?.delete(handler)
SeqWithout(s, h) ==
    LET keep == {i \in 1..Len(s) : s[i] # h}
        nth(n) == CHOOSE i \in keep : Cardinality({j \in keep : j <= i}) = n
    IN [n \in 1..Cardinality(keep) |-> s[nth(n)]]

\* A variant whose closure deletes the key's whole Set
UnsubscribeCall_DeletesKey(S, key, h) ==
    IF key \notin DOMAIN S.listeners THEN S
    ELSE [S EXCEPT !.listeners = [k \in DOMAIN S.listeners \ {key} |-> S.listeners[k]]]

UnsubscribeCall(S, key, h) ==
    IF key \notin DOMAIN S.listeners THEN S
    ELSE LET rest == SeqWithout(S.listeners[key], h)
         IN IF rest = <<>>
            THEN [S EXCEPT !.listeners = [k \in DOMAIN S.listeners \ {key} |-> S.listeners[k]]]
            ELSE [S EXCEPT !.listeners[key] = rest]

\* fn of this.batch(() => { this.set(p1, v1); this.set(p2, v2); ... })
RECURSIVE RunSets(_, _, _)
RunSets(S, items, i) ==
    IF i > Len(items) \/ S.exc # "none" THEN S
    ELSE RunSets(SetCall(S, items[i][1], items[i][2]), items, i + 1)

\* batch(fn) called by the store itself, with fn the set calls of items
BatchCall(S, items) ==
    IF S.destroyed THEN Throw(S, "Error: destroyed")
    ELSE LET body == RunSets([S EXCEPT !.batching = TRUE], items, 1)
         IN Return(BatchFinally(body, S.batching, body.exc), UNDEF)

\* A variant of setMany that tests its argument before the destroyed flag
SetManyCall_EntriesFirst(S, entries) ==
    IF entries.kind = "falsy" THEN S
    ELSE IF S.destroyed THEN Throw(S, "Error: destroyed")
    ELSE BatchCall(S, entries.items)

\* A variant of setMany that calls set for each entry without batch
SetManyCall_Unbatched(S, entries) ==
    IF S.destroyed THEN Throw(S, "Error: destroyed")
    ELSE IF entries.kind = "falsy" THEN S
    ELSE Return(RunSets(S, entries.items, 1), UNDEF)

\* entries: [kind |-> "falsy" | "array" | "map" | "object", items |-> the pairs in
\* iteration order]
SetManyCall(S, entries) ==
    IF S.destroyed THEN Throw(S, "Error: destroyed")
    ELSE IF entries.kind = "falsy" THEN S
    ELSE BatchCall(S, entries.items)

\* err?.message ?? String(err)
MessageOf(e) == Prim(e)

\* A variant of the catch block that records the failure and does not rethrow
AsyncCatch_NoRethrow(S, path, e) ==
    LET S0 == [S EXCEPT !.exc = "none"]
    IN IF e = "AbortError"
       THEN LET S1 == SetCall(S0, Append(path, "status"), Prim("cancelled"))
            IN IF S1.exc # "none" THEN S1 ELSE Throw(S1, "AbortError")
       ELSE BatchCall(S0, << <<Append(path, "status"), Prim("error")>>,
                             <<Append(path, "error"), MessageOf(e)>> >>)

\* the catch block of setAsync, entered with the error e
AsyncCatch(S, path, e) ==
    LET S0 == [S EXCEPT !.exc = "none"]
    IN IF e = "AbortError"
       THEN LET S1 == SetCall(S0, Append(path, "status"), Prim("cancelled"))
            IN IF S1.exc # "none" THEN S1 ELSE Throw(S1, "AbortError")
       ELSE LET S1 == BatchCall(S0, << <<Append(path, "status"), Prim("error")>>,
                                       <<Append(path, "error"), MessageOf(e)>> >>)
            IN IF S1.exc # "none" THEN S1 ELSE Throw(S1, e)

\* A variant of the finally block that deletes the record whoever owns it
AsyncFinally_Unconditional(S, path, c) ==
    [S EXCEPT !.asyncOps = [q \in DOMAIN S.asyncOps \ {path} |-> S.asyncOps[q]]]

\* the finally block of setAsync
AsyncFinally(S, path, c) ==
    IF path \in DOMAIN S.asyncOps /\ S.asyncOps[path] = c
    THEN [S EXCEPT !.asyncOps = [q \in DOMAIN S.asyncOps \ {path} |-> S.asyncOps[q]]]
    ELSE S

MapSet(m, k, v) == [x \in DOMAIN m \cup {k} |-> IF x = k THEN v ELSE m[x]]

\* setAsync(path, fetcher) up to its await, with c the new controller.
\* awaiting is TRUE in the result when the call is suspended on the fetcher.
SetAsyncStart(S, path, isFunction, c) ==
    IF S.destroyed THEN [S |-> Throw(S, "Error: destroyed"), awaiting |-> FALSE]
    ELSE IF path = <<>> \/ ~isFunction THEN [S |-> Throw(S, "TypeError"), awaiting |-> FALSE]
    ELSE LET S1 == [S EXCEPT !.asyncOps = MapSet(@, path, c)]
             S2 == BatchCall(S1, << <<Append(path, "status"), Prim("loading")>>,
                                    <<Append(path, "error"), NULL>> >>)
         IN IF S2.exc # "none"
            THEN [S |-> AsyncFinally(AsyncCatch(S2, path, S2.exc), path, c), awaiting |-> FALSE]
            ELSE [S |-> S2, awaiting |-> TRUE]

\* A variant of setAsync whose success phase sets the status only
SetAsyncResolved_StatusOnly(S, path, c, data) ==
    IF S.destroyed
    THEN AsyncFinally(AsyncCatch(S, path, "Error: destroyed"), path, c)
    ELSE AsyncFinally(Return(BatchCall(S, << <<Append(path, "status"), Prim("success")>> >>),
                             data), path, c)

\* setAsync after its await, when the fetcher resolved with data
SetAsyncResolved(S, path, c, data) ==
    IF S.destroyed
    THEN AsyncFinally(AsyncCatch(S, path, "Error: destroyed"), path, c)
    ELSE LET S1 == BatchCall(S, << <<Append(path, "data"), data>>,
                                   <<Append(path, "status"), Prim("success")>> >>)
         IN IF S1.exc # "none"
            THEN AsyncFinally(AsyncCatch(S1, path, S1.exc), path, c)
            ELSE AsyncFinally(Return(S1, data), path, c)

\* setAsync after its await, when the fetcher rejected with e
SetAsyncRejected(S, path, c, e) ==
    AsyncFinally(AsyncCatch(S, path, e), path, c)

\* A variant of cancel that sets the status whether or not an operation is recorded
CancelCall_Always(S, path) ==
    IF S.destroyed THEN Throw(S, "Error: destroyed")
    ELSE IF path = <<>> THEN Throw(S, "TypeError")
    ELSE Return(SetCall([S EXCEPT !.asyncOps = [q \in DOMAIN S.asyncOps \ {path} |-> S.asyncOps[q]]],
                        Append(path, "status"), Prim("cancelled")), UNDEF)

CancelCall(S, path) ==
    IF S.destroyed THEN Throw(S, "Error: destroyed")
    ELSE IF path = <<>> THEN Throw(S, "TypeError")
    ELSE IF path \in DOMAIN S.asyncOps
         THEN Return(SetCall([S EXCEPT !.asyncOps = [q \in DOMAIN S.asyncOps \ {path} |-> S.asyncOps[q]]],
                             Append(path, "status"), Prim("cancelled")), UNDEF)
         ELSE S

----------------------------------------------------------------------------
(* The calls a caller makes, one action each.  A call's record in lastOp    *)
(* keeps the call's name, the path and value passed to get, set, setAsync   *)
(* and cancel, whether a batch was open, how the call ended (result: "none" *)
(* or the exception thrown) and what it returned; h tells how the body of a *)
(* batch ended, the kind of setMany's argument, the error of a fetcher.     *)

Call(op, path, value, h) ==
    [op |-> op, path |-> path, value |-> value, h |-> h,
     batching |-> batching, depth |-> Len(frames),
     result |-> "none", ret |-> UNDEF]

Commit(S, call) ==
    /\ state' = S.state
    /\ listeners' = S.listeners
    /\ asyncOps' = S.asyncOps
    /\ destroyed' = S.destroyed
    /\ batching' = S.batching
    /\ batchBuffer' = S.batchBuffer
    /\ plusDestroyed' = S.plusDestroyed
    /\ log' = S.log
    /\ lastOp' = [call EXCEPT !.result = S.exc, !.ret = S.ret]

\* the handlers registered under key
Registered(key) ==
    {ListenersAt(listeners, key)[i] : i \in 1..Len(ListenersAt(listeners, key))}

\* controller.abort() on the controllers in cs
Abort(cs) ==
    [c \in DOMAIN ops |-> IF c \in cs THEN [ops[c] EXCEPT !.aborted = TRUE] ELSE ops[c]]

Recorded(path) == IF path \in DOMAIN asyncOps THEN {asyncOps[path]} ELSE {}

Get(path) ==
    /\ Commit(GetCall(Store, path), Call("get", path, UNDEF, "-"))
    /\ UNCHANGED <<frames, unsubs, ops>>

Set(path, value) ==
    /\ Commit(SetCall(Store, path, value), Call("set", path, value, "-"))
    /\ UNCHANGED <<frames, unsubs, ops>>

\* subscribe returns a new closure at every call, and the caller holds it as
\* <<key, h>>.  The closure of a subscribe(key, h) made while h is registered
\* under key and an earlier closure is held is <<key, h, 2>>.
Subscribe(key, h, isFunction) ==
    LET S == SubscribeCall(Store, key, h, isFunction)
    IN /\ Commit(S, Call("subscribe", <<>>, UNDEF, "-"))
       /\ unsubs' = IF S.exc # "none" THEN unsubs
                    ELSE IF <<key, h>> \in unsubs /\ h \in Registered(key)
                         THEN unsubs \cup {<<key, h, 2>>}
                         ELSE unsubs \cup {<<key, h>>}
       /\ UNCHANGED <<frames, ops>>

\* Calling a closure subscribe returned.  A caller lets go of a closure after
\* a call of it that found nothing left to remove.
Unsubscribe(key, h) ==
    /\ <<key, h>> \in unsubs
    /\ Commit(UnsubscribeCall(Store, key, h), Call("unsubscribe", <<>>, UNDEF, "-"))
    /\ unsubs' = IF key \in DOMAIN listeners /\ \E i \in 1..Len(listeners[key]) : listeners[key][i] = h
                 THEN unsubs
                 ELSE IF <<key, h, 2>> \in unsubs THEN unsubs \ {<<key, h, 2>>}
                 ELSE unsubs \ {<<key, h>>}
    /\ UNCHANGED <<frames, ops>>

Destroy ==
    /\ Commit(DestroyCall(Store), Call("destroy", <<>>, UNDEF, "-"))
    /\ ops' = IF destroyed THEN ops ELSE Abort({asyncOps[p] : p \in DOMAIN asyncOps})
    /\ UNCHANGED <<frames, unsubs>>

\* batch(fn) up to the call of fn: the caller's code in fn follows as further actions
BatchEnter(isFunction) ==
    LET call == Call("batch", <<>>, UNDEF, "-")
    IN IF destroyed THEN /\ Commit(Throw(Store, "Error: destroyed"), call)
                         /\ UNCHANGED <<frames, unsubs, ops>>
       ELSE IF ~isFunction THEN /\ Commit(Throw(Store, "TypeError"), call)
                                /\ UNCHANGED <<frames, unsubs, ops>>
       ELSE /\ Commit([Store EXCEPT !.batching = TRUE], call)
            /\ frames' = Append(frames, batching)
            /\ UNCHANGED <<unsubs, ops>>

\* fn returns or throws, and batch's finally block runs
BatchExit(fnThrows) ==
    /\ frames # <<>>
    /\ Commit(BatchFinally(Store, frames[Len(frames)], IF fnThrows THEN "Error: fn" ELSE "none"),
              Call("batchExit", <<>>, UNDEF, IF fnThrows THEN "throws" ELSE "returns"))
    /\ frames' = SubSeq(frames, 1, Len(frames) - 1)
    /\ UNCHANGED <<unsubs, ops>>

SetMany(entries) ==
    /\ Commit(SetManyCall(Store, entries), Call("setMany", <<>>, UNDEF, entries.kind))
    /\ UNCHANGED <<frames, unsubs, ops>>

\* setAsync(path, fetcher), to the point where it awaits the fetcher's promise
SetAsync(path, isFunction) ==
    LET c == Len(ops) + 1
        r == SetAsyncStart(Store, path, isFunction, c)
        started == ~destroyed /\ path # <<>> /\ isFunction
        op == [path |-> path, aborted |-> FALSE,
               outcome |-> IF r.awaiting THEN "pending" ELSE r.S.exc, data |-> UNDEF]
    IN /\ Commit(r.S, Call("setAsync", path, UNDEF, "-"))
       /\ ops' = IF started THEN Append(Abort(Recorded(path)), op) ELSE ops
       /\ UNCHANGED <<frames, unsubs>>

\* The fetcher's promise of operation c resolves with data, and setAsync goes on.
\* A continuation runs only when no caller code is on the stack.
FetchResolves(c, data) ==
    /\ c \in DOMAIN ops /\ ops[c].outcome = "pending" /\ frames = <<>>
    /\ LET S == SetAsyncResolved(Store, ops[c].path, c, data)
       IN /\ Commit(S, Call("resolved", ops[c].path, data, "-"))
          /\ ops' = [ops EXCEPT ![c].outcome = IF S.exc = "none" THEN "resolved" ELSE S.exc,
                                ![c].data = IF S.exc = "none" THEN data ELSE UNDEF]
    /\ UNCHANGED <<frames, unsubs>>

\* The fetcher's promise of operation c rejects with e; a fetcher rejects with an
\* AbortError only once its signal has been aborted.
FetchRejects(c, e) ==
    /\ c \in DOMAIN ops /\ ops[c].outcome = "pending" /\ frames = <<>>
    /\ e = "AbortError" => ops[c].aborted
    /\ LET S == SetAsyncRejected(Store, ops[c].path, c, e)
       IN /\ Commit(S, Call("rejected", ops[c].path, UNDEF, e))
          /\ ops' = [ops EXCEPT ![c].outcome = S.exc]
    /\ UNCHANGED <<frames, unsubs>>

Cancel(path) ==
    /\ Commit(CancelCall(Store, path), Call("cancel", path, UNDEF, "-"))
    /\ ops' = IF destroyed \/ path = <<>> THEN ops ELSE Abort(Recorded(path))
    /\ UNCHANGED <<frames, unsubs>>

----------------------------------------------------------------------------
(* The store after createEventState(initial) *)

Handlers == {"h1", "h2"}

InitialStates == {EmptyObj}

Init ==
    /\ state \in InitialStates
    /\ listeners = <<>>
    /\ asyncOps = <<>>
    /\ destroyed = FALSE
    /\ batching = FALSE
    /\ batchBuffer = <<>>
    /\ frames = <<>>
    /\ unsubs = {}
    /\ ops = <<>>
    /\ lastOp = Call("create", <<>>, UNDEF, "-")
    /\ plusDestroyed = FALSE
    /\ log = <<>>

----------------------------------------------------------------------------
(* Spec: writes and subscriptions.  Values are a falsy primitive, a truthy  *)
(* primitive and an object; keys are the written paths, the wildcard keys   *)
(* above, at and beside them, and the global key.                           *)

Paths == {<<>>, <<"a">>, <<"a", "b">>, <<"a", "b", "c">>}
Values == {Prim("0"), Prim("5"), EmptyObj}
\* subscribe(key, handler) calls: an exact key with two handlers, the wildcard
\* keys of both ancestors of a.b.c, of a.b.c itself and of a sibling, the global key
Subscriptions ==
    {<<<<"a", "b", "c">>, "h1">>, <<<<"a", "b", "c">>, "h2">>,
     <<<<"a", "*">>, "h1">>, <<<<"a", "b", "*">>, "h1">>, <<<<"a", "b", "*">>, "h2">>,
     <<<<"a", "b", "c", "*">>, "h1">>, <<<<"b", "*">>, "h1">>,
     <<<<"*">>, "h1">>, <<<<"*">>, "h2">>}

Next ==
    \/ \E p \in Paths, v \in Values : Set(p, v)
    \/ \E s \in Subscriptions :
          /\ Cardinality(unsubs) < MaxSubs
          /\ ~(s \in unsubs /\ s[2] \in Registered(s[1]))
          /\ Subscribe(s[1], s[2], TRUE)
    \/ \E s \in Subscriptions : Unsubscribe(s[1], s[2])
    \/ Destroy

Spec == Init /\ [][Next]_vars

----------------------------------------------------------------------------
(* One non-batched set(path, value), as lastOp and log record it *)

\* the last call was set(path, value) with a non-empty path, outside any batch,
\* on a live store
LiveSet ==
    /\ lastOp.op = "set" /\ ~lastOp.batching
    /\ lastOp.path # <<>> /\ lastOp.result # "Error: destroyed"

\* ... and it reached its write: cur[key] = value ran
WroteSet == LiveSet /\ lastOp.result = "none"

\* the invocations of handler h made for subscription key
CallsOf(key, h) ==
    {i \in DOMAIN log : log[i].ev = "call" /\ log[i].key = key /\ log[i].h = h}

\* the ".*" keys of the proper ancestor prefixes of path
WildcardKeys(path) == {Append(SubSeq(path, 1, n), "*") : n \in 1..(Len(path) - 1)}

IsWildcardCall(i) ==
    log[i].ev = "call" /\ Len(log[i].key) > 1 /\ log[i].key[Len(log[i].key)] = "*"

\* 1 for an exact-path invocation, 2 for an ancestor-wildcard one, 3 for a global one
Group(i) ==
    IF log[i].key = lastOp.path THEN 1 ELSE IF log[i].key = <<"*">> THEN 3 ELSE 2

\* C1: from every state of a live store, outside any batch, set(p, v) with a
\* non-empty path p returns v, and get(p) called next returns v.
C1_RoundTrip ==
    LiveSet =>
        /\ lastOp.result = "none"
        /\ lastOp.ret = lastOp.value
        /\ GetCall(Store, lastOp.path).ret = lastOp.value

\* C2: a non-batched set(p, v) that has written the tree has invoked every
\* handler registered under the exact key p exactly once, as cb(v, detail), after
\* the write, the handler reading v with get(p); and so it has whether or not v
\* is the value p held before.  No other handler was invoked for key p.
C2_ExactNotification ==
    WroteSet =>
        \A h \in Handlers :
            IF h \in Registered(lastOp.path)
            THEN /\ Cardinality(CallsOf(lastOp.path, h)) = 1
                 /\ \A i \in CallsOf(lastOp.path, h) :
                        /\ log[i].args = "value,detail"
                        /\ log[i].value = lastOp.value
                        /\ log[i].path = lastOp.path
                        /\ log[i].seen = lastOp.value
                        /\ \E w \in 1..(i - 1) :
                               log[w].ev = "write" /\ log[w].path = lastOp.path
            ELSE CallsOf(lastOp.path, h) = {}

\* two handlers under the written key, invoked for a value equal to the old one
C2_Witness ==
    /\ WroteSet
    /\ Len(ListenersAt(listeners, lastOp.path)) = 2
    /\ \E i \in DOMAIN log :
           log[i].ev = "call" /\ log[i].key = lastOp.path /\ log[i].old = lastOp.value

\* C3: a non-batched set with a non-empty path that has written the tree has
\* invoked every handler registered under "*" exactly once, as cb(detail) with
\* the written path and value, single-segment paths included.
C3_GlobalNotification ==
    WroteSet =>
        \A h \in Handlers :
            IF h \in Registered(<<"*">>)
            THEN /\ Cardinality(CallsOf(<<"*">>, h)) = 1
                 /\ \A i \in CallsOf(<<"*">>, h) :
                        /\ log[i].args = "detail"
                        /\ log[i].path = lastOp.path
                        /\ log[i].value = lastOp.value
            ELSE CallsOf(<<"*">>, h) = {}

\* a single-segment path written with two global handlers registered
C3_Witness ==
    /\ WroteSet
    /\ Len(lastOp.path) = 1
    /\ Registered(<<"*">>) = Handlers
    /\ \A h \in Handlers : CallsOf(<<"*">>, h) # {}

\* C4: a non-batched set at s1...sk that has written the tree has invoked the
\* handlers of the keys s1.*, s1.s2.*, ..., s1...s(k-1).* and of no other key
\* ending in ".*", each handler once, as cb(detail) with the written path and value.
C4_WildcardAncestors ==
    WroteSet =>
        /\ \A i \in DOMAIN log :
               IsWildcardCall(i) => log[i].key \in WildcardKeys(lastOp.path)
        /\ \A k \in WildcardKeys(lastOp.path), h \in Handlers :
               IF h \in Registered(k)
               THEN /\ Cardinality(CallsOf(k, h)) = 1
                    /\ \A i \in CallsOf(k, h) :
                           /\ log[i].args = "detail"
                           /\ log[i].path = lastOp.path
                           /\ log[i].value = lastOp.value
               ELSE CallsOf(k, h) = {}

\* a.b.c written with handlers under a.*, a.b.* and a.b.c.*: two keys notified
C4_Witness ==
    /\ WroteSet
    /\ lastOp.path = <<"a", "b", "c">>
    /\ \A k \in {<<"a", "*">>, <<"a", "b", "*">>, <<"a", "b", "c", "*">>} :
           Registered(k) # {}
    /\ {log[i].key : i \in {j \in DOMAIN log : IsWildcardCall(j)}}
           = {<<"a", "*">>, <<"a", "b", "*">>}

\* C5: within one non-batched set, every exact-path invocation comes before
\* every ancestor-wildcard invocation, and every ancestor-wildcard invocation
\* before every global one.
C5_GroupOrder ==
    LiveSet =>
        \A i, j \in DOMAIN log :
            (log[i].ev = "call" /\ log[j].ev = "call" /\ Group(i) < Group(j)) => i < j

\* a set that invoked an exact, a wildcard and a global handler
C5_Witness ==
    /\ LiveSet
    /\ \A g \in 1..3 : \E i \in DOMAIN log : log[i].ev = "call" /\ Group(i) = g

----------------------------------------------------------------------------
(* SpecBatch: batch(fn) bodies, nested, with the calls fn makes, and setMany *)

BatchPaths == {<<"a">>, <<"a", "b">>}
BatchValues == {Prim("0"), Prim("5")}
BatchKeys == {<<"a", "b">>, <<"a", "*">>, <<"*">>}
ManyEntries ==
    {[kind |-> "falsy", items |-> <<>>],
     [kind |-> "array", items |-> << <<<<"a", "b">>, Prim("0")>>, <<<<"a", "b">>, Prim("5")>> >>],
     [kind |-> "map", items |-> << <<<<"a">>, Prim("0")>>, <<<<"a", "b">>, Prim("5")>> >>],
     [kind |-> "object", items |-> << <<<<"a", "b">>, Prim("5")>>, <<<<"a">>, Prim("0")>> >>]}

NextBatch ==
    \/ \E p \in BatchPaths, v \in BatchValues : Set(p, v)
    \/ \E p \in BatchPaths : frames # <<>> /\ Get(p)
    \/ \E k \in BatchKeys :
          Cardinality(unsubs) < MaxSubs - 1 /\ Subscribe(k, "h1", TRUE)
    \/ \E k \in BatchKeys : Unsubscribe(k, "h1")
    \/ \E f \in BOOLEAN : Len(frames) < MaxDepth /\ BatchEnter(f)
    \/ \E t \in BOOLEAN : BatchExit(t)
    \/ \E e \in ManyEntries : SetMany(e)
    \/ Destroy

SpecBatch == Init /\ [][NextBatch]_vars

\* C11: a call of the closure subscribe(key, h) returned does not throw and
\* takes h, and nothing else, out of key's listeners (nothing at all when h is
\* not there any more); and a set invokes under a key only handlers that are
\* registered under it, so never one that was removed.
C11_Unsubscribe ==
    [][/\ lastOp'.op = "unsubscribe" =>
              /\ lastOp'.result = "none"
              /\ state' = state /\ log' = <<>>
              /\ \E s \in unsubs :
                     \A k \in DOMAIN listeners \cup DOMAIN listeners' :
                         ListenersAt(listeners', k) =
                             IF k = s[1]
                             THEN SelectSeq(ListenersAt(listeners, k), LAMBDA x : x # s[2])
                             ELSE ListenersAt(listeners, k)
       /\ lastOp'.op = "set" =>
              \A i \in DOMAIN log' :
                  log'[i].ev = "call" =>
                      \E n \in 1..Len(ListenersAt(listeners, log'[i].key)) :
                          ListenersAt(listeners, log'[i].key)[n] = log'[i].h]_vars

\* a closure has taken its handler out of a key that keeps another handler,
\* and the set that followed invoked the other handler only
C11_Witness ==
    /\ WroteSet
    /\ \E s \in unsubs :
           /\ s[1] = lastOp.path
           /\ s[2] \notin Registered(s[1])
           /\ Registered(s[1]) # {}
           /\ CallsOf(s[1], s[2]) = {}
           /\ \E h \in Registered(s[1]) : CallsOf(s[1], h) # {}

----------------------------------------------------------------------------
(* SpecTree: writes to a tree with siblings, of numbers, strings, booleans   *)
(* and objects, with and without members                                     *)

TreePaths == {<<"a">>, <<"a", "b">>, <<"a", "b", "c">>, <<"a", "d">>, <<"e">>}
TreeValues ==
    {Prim("0"), Prim("5"), Prim("s"), Prim("true"), EmptyObj,
     [r \in {<<>>, <<"c">>} |-> IF r = <<>> THEN "{}" ELSE "1"]}

TreeKey == <<"a", "b">>

NextTree ==
    \/ \E p \in TreePaths, v \in TreeValues : Set(p, v)
    \/ \E p \in TreePaths : Get(p)
    \/ unsubs = {} /\ Subscribe(TreeKey, "h1", TRUE)

SpecTree == Init /\ [][NextTree]_vars

\* the proper prefixes of path that name an intermediate segment
Intermediates(path) == {SubSeq(path, 1, n) : n \in 1..(Len(path) - 1)}

\* C12: a set whose path runs through an intermediate holding a number, a
\* string or a boolean completes: it returns the value, every intermediate is
\* an object afterwards and the value is at the final segment.
C12_NonObjectIntermediate ==
    [][(/\ lastOp'.op = "set" /\ ~destroyed
        /\ \E q \in Intermediates(lastOp'.path) : CellAt(state, q) \notin {"undefined", "{}"}) =>
          /\ lastOp'.result = "none"
          /\ \A q \in Intermediates(lastOp'.path) : CellAt(state', q) = "{}"
          /\ SubTree(state', lastOp'.path) = lastOp'.value]_vars

\* C13: a set whose intermediates are missing or objects returns the value,
\* leaves an object at every intermediate, the value at the final segment,
\* and every key that is neither on the path nor below it as it was.
C13_PathCreation ==
    [][(/\ lastOp'.op = "set" /\ ~destroyed
        /\ \A q \in Intermediates(lastOp'.path) : CellAt(state, q) \in {"undefined", "{}"}) =>
          /\ lastOp'.result = "none" /\ lastOp'.ret = lastOp'.value
          /\ \A q \in Intermediates(lastOp'.path) : CellAt(state', q) = "{}"
          /\ SubTree(state', lastOp'.path) = lastOp'.value
          /\ \A x \in DOMAIN state :
                 ~IsPrefix(lastOp'.path, x) => (x \in DOMAIN state' /\ state'[x] = state[x])
          /\ \A x \in DOMAIN state' :
                 x \in DOMAIN state \/ IsPrefix(x, lastOp'.path) \/ IsPrefix(lastOp'.path, x)]_vars

\* set('a.b.c', 5) has made a = {b: {c: 5}}, beside the keys a.d and e
C13_Witness ==
    /\ lastOp.op = "set" /\ lastOp.path = <<"a", "b", "c">> /\ lastOp.result = "none"
    /\ GetCall(Store, <<"a", "b">>).ret = [r \in {<<>>, <<"c">>} |-> IF r = <<>> THEN "{}" ELSE "5"]
    /\ CellAt(state, <<"a", "d">>) = "s" /\ CellAt(state, <<"e">>) = "true"

----------------------------------------------------------------------------
(* batch(fn): what the calls in fn's body and fn's return do *)

\* the tree writes recorded in l, in order, as <<path, value>> pairs
WritesOf(l) ==
    LET w == SelectSeq(l, LAMBDA e : e.ev = "write")
    IN [i \in 1..Len(w) |-> <<w[i].path, w[i].value>>]

\* C6: when the body of an outermost batch(fn) returns, each path written in
\* the body is written to the tree exactly once, with the last value the body
\* gave it, and the handlers under that path are invoked exactly once with it.
C6_Coalescing ==
    [][(Len(frames) = 1 /\ lastOp'.op = "batchExit") =>
          \A k \in 1..Len(batchBuffer) :
              LET path == batchBuffer[k][1]
                  value == batchBuffer[k][2]
                  writes == {i \in DOMAIN log' : log'[i].ev = "write" /\ log'[i].path = path}
                  calls == {i \in DOMAIN log' : log'[i].ev = "call" /\ log'[i].key = path}
              IN /\ Cardinality(writes) = 1
                 /\ \A i \in writes : log'[i].value = value
                 /\ Cardinality(calls) = Len(ListenersAt(listeners, path))
                 /\ \A i \in calls : log'[i].value = value]_vars

\* C7: a set called while a batch(fn) body runs leaves the tree as it is and
\* invokes no handler; while a batch is open the tree changes and handlers run
\* only in the step where the outermost body returns.
C7_BatchDeferral ==
    [][/\ (frames # <<>> /\ lastOp'.op = "set") => (state' = state /\ log' = <<>>)
       /\ (frames # <<>> /\ (state' # state \/ log' # <<>>)) =>
              (lastOp'.op = "batchExit" /\ Len(frames) = 1)]_vars

\* inside a batch body, a set of a new value to a path with an exact and a global
\* handler has returned: the tree still holds the old value, nobody was invoked
C7_Witness ==
    /\ frames # <<>> /\ lastOp.op = "set" /\ lastOp.result = "none"
    /\ SubTree(state, lastOp.path) # lastOp.value
    /\ \E k \in 1..Len(batchBuffer) : batchBuffer[k] = <<lastOp.path, lastOp.value>>
    /\ Registered(lastOp.path) # {} /\ Registered(<<"*">>) # {}
    /\ log = <<>>

\* C8: the return of a batch nested in another batch's body flushes nothing:
\* tree and buffer stay as they are and the store keeps batching.  The return
\* of the outermost body empties the buffer in one flush, which writes the
\* buffered entries in buffer order, all of them unless a write throws.
C8_NestedBatch ==
    [][lastOp'.op = "batchExit" =>
          IF Len(frames) > 1
          THEN /\ state' = state /\ log' = <<>>
               /\ batchBuffer' = batchBuffer /\ batching'
          ELSE /\ batchBuffer' = <<>> /\ ~batching'
               /\ IsPrefix(WritesOf(log'), batchBuffer)
               /\ lastOp'.result # "TypeError" => WritesOf(log') = batchBuffer]_vars

\* an inner batch has returned inside an open outer one, two paths are buffered
\* and the tree holds neither value yet
C8_Witness ==
    /\ lastOp.op = "batchExit" /\ lastOp.depth = 2 /\ Len(frames) = 1
    /\ Len(batchBuffer) = 2 /\ batching
    /\ \A k \in 1..Len(batchBuffer) : SubTree(state, batchBuffer[k][1]) # batchBuffer[k][2]
    /\ log = <<>>

\* C15: inside a batch body, get(p) called right after set(p, v) returns v.
C15_GetInsideBatch ==
    [][(/\ frames # <<>> /\ ~destroyed
        /\ lastOp.op = "set" /\ lastOp.result = "none"
        /\ lastOp'.op = "get" /\ lastOp'.path = lastOp.path) =>
          lastOp'.ret = lastOp.value]_vars

\* the position of path in the buffer buf
PositionIn(buf, path) == CHOOSE k \in 1..Len(buf) : buf[k][1] = path

\* C16: a set inside a batch body appends its path to the buffer when the path
\* is new there and otherwise replaces the value at the path's position; the
\* flush of the outermost batch writes and notifies the buffered paths in
\* buffer order, that is, in the order of their first writes.
C16_FlushOrder ==
    [][/\ (/\ frames # <<>> /\ lastOp'.op = "set"
           /\ lastOp'.path # <<>> /\ lastOp'.result = "none") =>
              IF \E k \in 1..Len(batchBuffer) : batchBuffer[k][1] = lastOp'.path
              THEN /\ Len(batchBuffer') = Len(batchBuffer)
                   /\ \A k \in 1..Len(batchBuffer) :
                          batchBuffer'[k] = IF batchBuffer[k][1] = lastOp'.path
                                            THEN <<lastOp'.path, lastOp'.value>>
                                            ELSE batchBuffer[k]
              ELSE batchBuffer' = Append(batchBuffer, <<lastOp'.path, lastOp'.value>>)
       /\ (Len(frames) = 1 /\ lastOp'.op = "batchExit") =>
              /\ \A i \in DOMAIN log' :
                     \E k \in 1..Len(batchBuffer) : batchBuffer[k][1] = log'[i].path
              /\ \A i, j \in DOMAIN log' :
                     i < j => PositionIn(batchBuffer, log'[i].path)
                                 <= PositionIn(batchBuffer, log'[j].path)]_vars

\* inside a batch body the last set wrote the path that is first of two in the
\* buffer: the path was written before, and kept its place
C16_Witness ==
    /\ frames # <<>> /\ lastOp.op = "set" /\ lastOp.result = "none"
    /\ Len(batchBuffer) = 2
    /\ batchBuffer[1] = <<lastOp.path, lastOp.value>>

\* C17: when fn throws, batch throws fn's exception to its caller and leaves
\* the batching flag as it was before the call.
C17_BatchException ==
    [][(lastOp'.op = "batchExit" /\ lastOp'.h = "throws") =>
          /\ lastOp'.result = "Error: fn"
          /\ batching' = frames[Len(frames)]]_vars

\* C18: setMany(entries) ends with the tree, the handler invocations, the
\* buffer and the outcome of batch(() => { set(p, v) for each entry in order });
\* with a falsy argument it changes nothing and invokes nobody.
C18_SetManyEquivalence ==
    [][(lastOp'.op = "setMany" /\ ~destroyed) =>
          \E e \in ManyEntries :
              /\ e.kind = lastOp'.h
              /\ IF e.kind = "falsy"
                 THEN /\ state' = state /\ batchBuffer' = batchBuffer
                      /\ log' = <<>> /\ lastOp'.result = "none"
                 ELSE LET body == RunSets([Store EXCEPT !.batching = TRUE], e.items, 1)
                          done == BatchFinally(body, batching, body.exc)
                      IN /\ state' = done.state /\ log' = done.log
                         /\ batchBuffer' = done.batchBuffer /\ batching' = done.batching
                         /\ lastOp'.result = done.exc]_vars

\* setMany([['a.b', 0], ['a.b', 5]]) outside any batch has written a.b once,
\* with 5, and invoked the handler under a.b once
C18_Witness ==
    /\ lastOp.op = "setMany" /\ lastOp.h = "array" /\ lastOp.result = "none"
    /\ ~lastOp.batching
    /\ WritesOf(log) = << <<<<"a", "b">>, Prim("5")>> >>
    /\ Cardinality(CallsOf(<<"a", "b">>, "h1")) = 1

----------------------------------------------------------------------------
(* SpecHandlers: sets on a store whose subscribed functions throw, destroy  *)
(* the store, or call set themselves                                        *)

HandlerPaths == {<<"a", "b">>, ReactPath}
HandlerKeys == {<<"a", "b">>, <<"a", "*">>, <<"*">>}
ActingHandlers == {"h1", "hThrow", "hDestroy", "hSet", "hSame"}

HandlerEntries ==
    {[kind |-> "array", items |-> << <<<<"a", "b">>, Prim("5")>>, <<ReactPath, Prim("5")>> >>]}

NextHandlers ==
    \/ \E p \in HandlerPaths : Set(p, Prim("5"))
    \/ \E e \in HandlerEntries : SetMany(e)
    \/ \E k \in HandlerKeys, h \in ActingHandlers :
          Cardinality(unsubs) < MaxSubs /\ Subscribe(k, h, TRUE)
    \/ Destroy

SpecHandlers == Init /\ [][NextHandlers]_vars

\* key is the exact key, an ancestor-wildcard key or the global key of path
Concerns(key, path) == key = path \/ key \in WildcardKeys(path) \/ key = <<"*">>

\* C26: once destroy() has been called no handler is invoked any more: no
\* call on a destroyed store invokes a handler, and in a notification pass in
\* which a handler called destroy() no handler is invoked after that one.
C26_DestroyClearsListeners ==
    /\ \A i, j \in DOMAIN log :
           (i < j /\ log[i].ev = "call" /\ log[i].h = "hDestroy") => log[j].ev # "call"
    /\ (destroyed /\ \A i \in DOMAIN log : log[i].h # "hDestroy") =>
           \A j \in DOMAIN log : log[j].ev # "call"

\* C28: when a handler throws during the notification pass of a non-batched
\* set (and no handler destroys the store), every handler registered under the
\* exact key, the ancestor-wildcard keys and '*' is invoked for the written
\* path all the same, and the tree keeps the written value.
C28_HandlerIsolation ==
    [][(/\ lastOp'.op = "set" /\ ~batching
        /\ \E j \in DOMAIN log' : log'[j].ev = "call" /\ log'[j].h = "hThrow"
        /\ \A j \in DOMAIN log' : log'[j].h # "hDestroy") =>
          /\ SubTree(state', lastOp'.path) = lastOp'.value
          /\ \A k \in DOMAIN listeners : Concerns(k, lastOp'.path) =>
                 \A i \in DOMAIN listeners[k] :
                     \E j \in DOMAIN log' : /\ log'[j].ev = "call" /\ log'[j].key = k
                                            /\ log'[j].h = listeners[k][i]
                                            /\ log'[j].path = lastOp'.path]_vars

\* C29: the handler invocations of a non-batched set call are not interleaved
\* with those of another set call: between two invocations made for the path
\* of the call no handler is invoked for another path, also when a handler of
\* the call itself calls set.
C29_NoInterleaving ==
    (lastOp.op = "set" /\ ~lastOp.batching) =>
        \A i, j, k \in DOMAIN log :
            (/\ i < j /\ j < k
             /\ log[i].ev = "call" /\ log[i].path = lastOp.path
             /\ log[k].ev = "call" /\ log[k].path = lastOp.path) =>
                (log[j].ev = "call" => log[j].path = lastOp.path)

----------------------------------------------------------------------------
(* The EventTarget-based store: its tree is `store`, kept in state, and the *)
(* listeners of its `bus` are kept in listeners, by event type, in the      *)
(* order addEventListener received them.                                    *)

\* bus.dispatchEvent(new CustomEvent(type, {detail})): the listeners of the
\* type, from the i-th on; each is (e) => callback(e.detail, path)
RECURSIVE DispatchEvent(_, _, _, _, _)
DispatchEvent(S, type, i, args, d) ==
    IF i > Len(ListenersAt(S.listeners, type)) THEN S
    ELSE DispatchEvent([S EXCEPT !.log = Append(@, CallEvent(S, type, ListenersAt(S.listeners, type)[i], args, d))],
                       type, i + 1, args, d)

\* parts.forEach(part => { if (!target[part] || typeof target[part] !== "object")
\*                            target[part] = {}; target = target[part]; })
RECURSIVE BusWalk(_, _, _)
BusWalk(t, parts, i) ==
    IF i > Len(parts) THEN t
    ELSE LET next == SubSeq(parts, 1, i)
         IN IF Falsy(CellAt(t, next)) \/ ~IsObjectCell(CellAt(t, next))
            THEN BusWalk(Assign(t, next, EmptyObj), parts, i + 1)
            ELSE BusWalk(t, parts, i + 1)

\* for (const part of parts) { parentPath = ...; dispatch `${parentPath}.*` }
RECURSIVE BusParents(_, _, _, _)
BusParents(S, parts, i, d) ==
    IF i > Len(parts) THEN S
    ELSE BusParents(DispatchEvent(S, Append(SubSeq(parts, 1, i), "*"), 1, "detail", d),
                    parts, i + 1, d)

\* A variant of set that dispatches the "*" event for every path
BusSetCall_GlobalAlways(S, path, value) ==
    IF path = <<>> THEN Return(S, UNDEF)
    ELSE LET parts == SubSeq(path, 1, Len(path) - 1)
             S1 == [S EXCEPT !.state = Assign(BusWalk(S.state, parts, 1), path, value),
                             !.log = Append(@, WriteEvent(path, value))]
             d == [path |-> path, value |-> value, oldValue |-> UNDEF]
             S2 == DispatchEvent(S1, path, 1, "value", d)
         IN Return(DispatchEvent(BusParents(S2, parts, 1, d), <<"*">>, 1, "detail", d), value)

\* set(path, value) of the EventTarget-based store
BusSetCall(S, path, value) ==
    IF path = <<>> THEN Return(S, UNDEF)
    ELSE LET parts == SubSeq(path, 1, Len(path) - 1)
             S1 == [S EXCEPT !.state = Assign(BusWalk(S.state, parts, 1), path, value),
                             !.log = Append(@, WriteEvent(path, value))]
             d == [path |-> path, value |-> value, oldValue |-> UNDEF]
             S2 == DispatchEvent(S1, path, 1, "value", d)
         IN IF Len(parts) > 0
            THEN Return(DispatchEvent(BusParents(S2, parts, 1, d), <<"*">>, 1, "detail", d), value)
            ELSE Return(S2, value)

\* subscribe(path, callback): every call adds a listener of its own
BusSubscribeCall(S, key, h, isFunction) ==
    IF key = <<>> \/ ~isFunction THEN S
    ELSE [S EXCEPT !.listeners =
              [k \in DOMAIN S.listeners \cup {key} |->
                  IF k = key THEN Append(ListenersAt(S.listeners, k), h) ELSE S.listeners[k]]]

\* the closure subscribe returned: bus.removeEventListener(path, handler),
\* for the n-th listener of the key
BusUnsubscribeCall(S, key, n) ==
    LET ls == S.listeners[key]
        rest == [i \in 1..(Len(ls) - 1) |-> IF i < n THEN ls[i] ELSE ls[i + 1]]
    IN IF rest = <<>>
       THEN [S EXCEPT !.listeners = [k \in DOMAIN S.listeners \ {key} |-> S.listeners[k]]]
       ELSE [S EXCEPT !.listeners[key] = rest]

BusSet(path, value) ==
    /\ Commit(BusSetCall(Store, path, value), Call("set", path, value, "-"))
    /\ UNCHANGED <<frames, unsubs, ops>>

BusSubscribe(key, h, isFunction) ==
    /\ Commit(BusSubscribeCall(Store, key, h, isFunction), Call("subscribe", <<>>, UNDEF, "-"))
    /\ UNCHANGED <<frames, unsubs, ops>>

BusUnsubscribe(key, n) ==
    /\ key \in DOMAIN listeners /\ n \in DOMAIN listeners[key]
    /\ Commit(BusUnsubscribeCall(Store, key, n), Call("unsubscribe", <<>>, UNDEF, "-"))
    /\ UNCHANGED <<frames, unsubs, ops>>

BusPaths == {<<>>, <<"count">>, <<"a", "b">>, <<"a", "b", "c">>}
BusKeys == {<<>>, <<"count">>, <<"a", "*">>, <<"a", "b", "*">>, <<"*">>}

\* the listeners on the bus
RECURSIVE SumLen(_, _)
SumLen(ls, keys) ==
    IF keys = {} THEN 0
    ELSE LET k == CHOOSE x \in keys : TRUE IN Len(ls[k]) + SumLen(ls, keys \ {k})

NextBus ==
    \/ \E p \in BusPaths : BusSet(p, Prim("5"))
    \/ \E k \in BusKeys, h \in Handlers :
          SumLen(listeners, DOMAIN listeners) < MaxSubs /\ BusSubscribe(k, h, TRUE)
    \/ \E k \in BusKeys : BusUnsubscribe(k, 1)

SpecBus == Init /\ [][NextBus]_vars

\* the handlers invoked for event type key, in order
HandlersCalled(l, key) ==
    LET c == SelectSeq(l, LAMBDA e : e.ev = "call" /\ e.key = key)
    IN [i \in 1..Len(c) |-> c[i].h]

----------------------------------------------------------------------------
(* The quotes bridge of app/bridges.js.  The requests issued so far are     *)
(* kept in ops, one record each: phase tells which callback of the promise  *)
(* chain runs next, err the error on its way to catch.  myId of a request   *)
(* is its index, and quotesReqId the number of requests issued.             *)

quotesReqId == Len(ops)

QuotesData == {Prim("x"), Prim("y")}
QuotesPath(leaf) == <<"ui", "quotes", leaf>>

\* the store's record after a callback of request c ran its sets
QuotesStep(S, c, phase, err, name) ==
    /\ Commit(S, Call(name, <<>>, UNDEF, "-"))
    /\ ops' = [ops EXCEPT ![c] = [phase |-> phase, err |-> err]]
    /\ UNCHANGED <<frames, unsubs>>

\* the handler of 'intent.quotes.load', up to the call of fetch
QuotesLoad ==
    /\ Commit(SetCall(SetCall(Store, QuotesPath("loading"), Prim("true")),
                      QuotesPath("error"), NULL),
              Call("quotesLoad", <<>>, UNDEF, "-"))
    /\ ops' = Append(ops, [phase |-> "fetch", err |-> UNDEF])
    /\ UNCHANGED <<frames, unsubs>>

\* fetch resolves with a response and the then callback runs up to its await
QuotesThen(c, ok) ==
    /\ c \in DOMAIN ops /\ ops[c].phase = "fetch"
    /\ IF c # quotesReqId THEN QuotesStep(Store, c, "finally", UNDEF, "quotesThen")
       ELSE IF ~ok THEN QuotesStep(Store, c, "catch", Prim("HTTP error"), "quotesThen")
       ELSE QuotesStep(Store, c, "json", UNDEF, "quotesThen")

\* fetch rejects: the then callback is skipped
QuotesFetchFails(c) ==
    /\ c \in DOMAIN ops /\ ops[c].phase = "fetch"
    /\ QuotesStep(Store, c, "catch", Prim("fetch failed"), "quotesFetchFails")

\* res.json() resolves with data and the then callback goes on after its await
QuotesJson(c, data) ==
    /\ c \in DOMAIN ops /\ ops[c].phase = "json"
    /\ QuotesStep(SetCall(Store, QuotesPath("data"), data), c, "finally", UNDEF, "quotesJson")

\* res.json() rejects
QuotesJsonFails(c) ==
    /\ c \in DOMAIN ops /\ ops[c].phase = "json"
    /\ QuotesStep(Store, c, "catch", Prim("bad json"), "quotesJsonFails")

\* the catch callback
QuotesCatch(c) ==
    /\ c \in DOMAIN ops /\ ops[c].phase = "catch"
    /\ IF c # quotesReqId THEN QuotesStep(Store, c, "finally", UNDEF, "quotesCatch")
       ELSE QuotesStep(SetCall(Store, QuotesPath("error"), ops[c].err), c, "finally", UNDEF, "quotesCatch")

\* the finally callback
QuotesFinally(c) ==
    /\ c \in DOMAIN ops /\ ops[c].phase = "finally"
    /\ IF c # quotesReqId THEN QuotesStep(Store, c, "done", UNDEF, "quotesFinally")
       ELSE QuotesStep(SetCall(Store, QuotesPath("loading"), Prim("false")), c, "done", UNDEF, "quotesFinally")

NextQuotes ==
    \/ Len(ops) < MaxAsync /\ QuotesLoad
    \/ \E c \in DOMAIN ops, ok \in BOOLEAN : QuotesThen(c, ok)
    \/ \E c \in DOMAIN ops : QuotesFetchFails(c)
    \/ \E c \in DOMAIN ops, x \in QuotesData : QuotesJson(c, x)
    \/ \E c \in DOMAIN ops : QuotesJsonFails(c)
    \/ \E c \in DOMAIN ops : QuotesCatch(c)
    \/ \E c \in DOMAIN ops : QuotesFinally(c)

SpecQuotes == Init /\ [][NextQuotes]_vars

\* C38: a callback of a request that is not the most recently issued one
\* writes none of ui.quotes.data, ui.quotes.error, ui.quotes.loading.
C38_QuotesLastRequestWins ==
    [][\A c \in DOMAIN ops :
          (c # quotesReqId /\ ops'[c] # ops[c]) =>
              /\ log' = <<>>
              /\ \A leaf \in {"data", "error", "loading"} :
                     SubTree(state', QuotesPath(leaf)) = SubTree(state, QuotesPath(leaf))]_vars

----------------------------------------------------------------------------
(* applyConverge of extensions/hydrate.js over the store, with its default  *)
(* options: the clock of a path is kept in the store itself, at the path    *)
(* 'clocks.' + path.  A clock n is the number cell ClockCells[n]; ops keeps *)
(* the changes handed to applyConverge so far.                              *)

MaxChanges == 3     \* applyConverge calls made in one run
MaxClock == 3       \* the largest clock of a change

ClockCells == <<"1", "2", "3", "4", "5">>

\* Number(x) of the cell of x, for the cells a comparison with a clock can
\* meet: NaN (here -1, which no clock exceeds either) for an object or text
NumberOf(c) ==
    IF c = "0" THEN 0
    ELSE IF \E n \in DOMAIN ClockCells : ClockCells[n] = c
         THEN CHOOSE n \in DOMAIN ClockCells : ClockCells[n] = c
         ELSE -1

\* `${clocksPath}.${ck}`, split by the store as any other path
ClockPath(path) == <<"clocks">> \o path

ApplyConvergeCall(S, path, value, clock) ==
    IF path = <<>> THEN Return(S, Prim("false"))
    ELSE LET G == GetCall(S, ClockPath(path))
             cell == CellAt(G.ret, <<>>)
             localClock == IF Falsy(cell) THEN 0 ELSE NumberOf(cell)
         IN IF G.exc # "none" THEN G
            ELSE IF ~(clock > localClock) THEN Return(S, Prim("false"))
            ELSE LET S1 == SetCall(S, path, value)
                     S2 == SetCall(S1, ClockPath(path), Prim(ClockCells[clock]))
                 IN IF S1.exc # "none" THEN S1
                    ELSE IF S2.exc # "none" THEN S2
                    ELSE Return(S2, Prim("true"))

ApplyConverge(path, value, clock) ==
    /\ Commit(ApplyConvergeCall(Store, path, value, clock),
              Call("applyConverge", path, value, ClockCells[clock]))
    /\ ops' = Append(ops, [path |-> path, value |-> value, clock |-> clock])
    /\ UNCHANGED <<frames, unsubs>>

ConvergePaths == {<<>>, <<"a">>, <<"a", "b">>, <<"c">>}
ConvergeValues == {Prim("x"), Prim("y")}

\* the changes of a run carry distinct clocks
NextConverge ==
    \E p \in ConvergePaths, v \in ConvergeValues, n \in 1..MaxClock :
        /\ Len(ops) < MaxChanges
        /\ \A i \in DOMAIN ops : ops[i].clock # n
        /\ ApplyConverge(p, v, n)

SpecConverge == Init /\ [][NextConverge]_vars

\* the change of the highest clock among those made for path p
Winner(p) ==
    CHOOSE i \in DOMAIN ops :
        /\ ops[i].path = p
        /\ \A j \in DOMAIN ops : ops[j].path = p => ops[j].clock <= ops[i].clock

----------------------------------------------------------------------------
(* The Plus facade of extensions/hydrate.js (createEventStatePlus and       *)
(* upgradeEventState) over the Map-based store of core/eventStateNew.js.    *)
(* state, listeners and destroyed are the base store's; batching,           *)
(* batchBuffer and plusDestroyed are the facade's batching, buffer and      *)
(* destroyed, frames its open batch(fn) calls, and unsubs its               *)
(* _subscriptions: <<key, handler>> for the closure base.subscribe gave for *)
(* the wrapper of handler.  An upgraded facade leaves the base in the       *)
(* caller's hands, who may call base.set and base.destroy directly.         *)

\* facade.destroy() ran: the mark it leaves in the log of the call
DestroyEvent ==
    [ev |-> "destroy", key |-> <<>>, h |-> "-", args |-> "-",
     path |-> <<>>, value |-> UNDEF, old |-> UNDEF, seen |-> UNDEF]

\* get(path) of the base
BaseGet(S, path) ==
    IF S.destroyed THEN Throw(S, "Error: base destroyed")
    ELSE IF path = <<>> THEN Return(S, S.state)
    ELSE IF \E i \in 1..Len(path) : Nullish(CellAt(S.state, SubSeq(path, 1, i - 1)))
         THEN Return(S, UNDEF)
         ELSE Return(S, SubTree(S.state, path))

\* destroy() of the base
BaseDestroy(S) ==
    IF ~S.destroyed THEN [S EXCEPT !.destroyed = TRUE, !.listeners = <<>>] ELSE S

\* the closure base.subscribe returns: listeners.get(path)?.delete(handler)
BaseUnsubscribe(S, key, h) ==
    IF key \notin DOMAIN S.listeners THEN S
    ELSE [S EXCEPT !.listeners[key] = SeqWithout(@, h)]

\* what is left of a Set of key after the closures in _subscriptions ran
AfterUnsubs(set, key) == SelectSeq(set, LAMBDA h : <<key, h>> \notin unsubs)

\* destroy() of the facade: the unsubscribe closures, base.destroy(), the flag,
\* buffer.clear()
PlusDestroyCall(S) ==
    IF S.plusDestroyed THEN S
    ELSE LET S1 == [S EXCEPT !.listeners = [k \in DOMAIN S.listeners |->
                                               AfterUnsubs(S.listeners[k], k)]]
             S2 == BaseDestroy(S1)
         IN [S2 EXCEPT !.plusDestroyed = TRUE, !.batchBuffer = <<>>,
                       !.log = Append(@, DestroyEvent)]

\* What the functions subscribed through the facade do when called: h1 and h2
\* only look, hThrow throws, hPlusDestroy calls facade.destroy() and
\* hBaseDestroy calls base.destroy().
PlusHandlerBody(S, h) ==
    CASE h = "hThrow" -> Throw(S, "Error: handler")
      [] h = "hPlusDestroy" -> PlusDestroyCall(S)
      [] h = "hBaseDestroy" -> BaseDestroy(S)
      [] OTHER -> S

\* set.forEach(cb => cb(...)) over the Set fetched from the Map, rest being its
\* members not yet visited.  The closures facade.destroy() runs delete from
\* that very Set as long as the Map still holds it, and a member deleted
\* before its turn is not visited; once base.destroy() has cleared the Map the
\* closures find no Set and the fetched one keeps its members.
RECURSIVE PlusForEach(_, _, _, _, _)
PlusForEach(S, rest, key, args, d) ==
    IF S.exc # "none" \/ rest = <<>> THEN S
    ELSE LET h == Head(rest)
             T == PlusHandlerBody([S EXCEPT !.log = Append(@, CallEvent(S, key, h, args, d))], h)
             left == IF ~S.destroyed /\ ~S.plusDestroyed /\ T.plusDestroyed
                     THEN AfterUnsubs(Tail(rest), key)
                     ELSE Tail(rest)
         IN PlusForEach(T, left, key, args, d)

\* for (let i = 0; i < parts.length; i++) { parts.slice(0, i + 1).join('.') + '.*' }
RECURSIVE PlusParents(_, _, _, _)
PlusParents(S, parts, i, d) ==
    IF i > Len(parts) THEN S
    ELSE LET key == Append(SubSeq(parts, 1, i), "*")
         IN PlusParents(PlusForEach(S, ListenersAt(S.listeners, key), key, "detail", d),
                        parts, i + 1, d)

\* set(path, value) of the base
BaseSet(S, path, value) ==
    IF S.destroyed THEN Throw(S, "Error: base destroyed")
    ELSE IF path = <<>> THEN Return(S, value)
    ELSE LET parts == SubSeq(path, 1, Len(path) - 1)
             w == WalkParts(S.state, parts, 1)
         IN IF w.thrown \/ ~IsObjectCell(CellAt(w.state, parts))
            THEN Throw([S EXCEPT !.state = w.state], "TypeError")
            ELSE LET old == SubTree(w.state, path)
                     d == [path |-> path, value |-> value, oldValue |-> old]
                     S1 == [S EXCEPT !.state = Assign(w.state, path, value),
                                     !.log = Append(@, WriteEvent(path, value))]
                     S2 == PlusForEach(S1, ListenersAt(S1.listeners, path), path, "value", d)
                     S3 == PlusParents(S2, parts, 1, d)
                     S4 == PlusForEach(S3, ListenersAt(S3.listeners, <<"*">>), <<"*">>, "detail", d)
                 IN Return(S4, value)

\* A variant of the facade's set that hands every write to the base at once
PlusSetCall_Unbuffered(S, path, value) ==
    IF S.plusDestroyed THEN Throw(S, "Error: destroyed")
    ELSE IF path = <<>> THEN Return(S, value)
    ELSE BaseSet(S, path, value)

\* set(path, value) of the facade
PlusSetCall(S, path, value) ==
    IF S.plusDestroyed THEN Throw(S, "Error: destroyed")
    ELSE IF path = <<>> THEN Return(S, value)
    ELSE IF S.batching
         THEN Return([S EXCEPT !.batchBuffer = BufferSet(@, path, value)], value)
         ELSE BaseSet(S, path, value)

\* for (const [path, value] of entries) base.set(path, value)
RECURSIVE FlushEntries(_, _, _)
FlushEntries(S, entries, i) ==
    IF i > Len(entries) \/ S.exc # "none" THEN S
    ELSE FlushEntries(BaseSet(S, entries[i][1], entries[i][2]), entries, i + 1)

flushBuffer(S) ==
    FlushEntries([S EXCEPT !.batchBuffer = <<>>], S.batchBuffer, 1)

\* the finally block of the facade's batch(fn), run with fn's outcome e
PlusBatchFinally(S, wasBatching, e) ==
    LET S1 == [S EXCEPT !.batching = wasBatching, !.exc = "none"]
        S2 == IF ~S1.batching THEN flushBuffer(S1) ELSE S1
    IN IF S2.exc # "none" THEN S2 ELSE Throw(S2, e)

RECURSIVE PlusRunSets(_, _, _)
PlusRunSets(S, items, i) ==
    IF i > Len(items) \/ S.exc # "none" THEN S
    ELSE PlusRunSets(PlusSetCall(S, items[i][1], items[i][2]), items, i + 1)

\* setMany(entries) of the facade
PlusSetManyCall(S, entries) ==
    IF S.plusDestroyed THEN Throw(S, "Error: destroyed")
    ELSE IF entries.kind = "falsy" THEN S
    ELSE LET body == PlusRunSets([S EXCEPT !.batching = TRUE], entries.items, 1)
         IN Return(PlusBatchFinally(body, S.batching, body.exc), UNDEF)

\* subscribe(path, handler) of the facade, path being a string
PlusSubscribeCall(S, key, h, isFunction) ==
    IF S.plusDestroyed THEN Throw(S, "Error: destroyed")
    ELSE IF ~isFunction THEN Throw(S, "TypeError")
    ELSE IF S.destroyed THEN Throw(S, "Error: base destroyed")
    ELSE IF key = <<>> THEN Throw(S, "TypeError")
    ELSE [S EXCEPT !.listeners = AddListener(@, key, h)]

\* a call through the facade or on the base: a facade.destroy() made within it
\* leaves _subscriptions empty
PlusCommit(S, call) ==
    /\ Commit(S, call)
    /\ unsubs' = IF S.plusDestroyed THEN {} ELSE unsubs
    /\ UNCHANGED <<frames, ops>>

PlusGet(path) == PlusCommit(BaseGet(Store, path), Call("plus.get", path, UNDEF, "-"))

PlusSet(path, value) ==
    PlusCommit(PlusSetCall(Store, path, value), Call("plus.set", path, value, "-"))

PlusSubscribe(key, h, isFunction) ==
    LET S == PlusSubscribeCall(Store, key, h, isFunction)
    IN /\ Commit(S, Call("plus.subscribe", <<>>, UNDEF, "-"))
       /\ unsubs' = IF S.exc # "none" THEN unsubs ELSE unsubs \cup {<<key, h>>}
       /\ UNCHANGED <<frames, ops>>

\* off(): _subscriptions.delete(unsubscribe); return unsubscribe()
PlusOff(key, h) ==
    /\ <<key, h>> \in unsubs
    /\ Commit(BaseUnsubscribe(Store, key, h), Call("plus.off", <<>>, UNDEF, "-"))
    /\ unsubs' = unsubs \ {<<key, h>>}
    /\ UNCHANGED <<frames, ops>>

\* batch(fn) of the facade up to the call of fn
PlusBatchEnter ==
    LET call == Call("plus.batch", <<>>, UNDEF, "-")
    IN IF plusDestroyed THEN /\ Commit(Throw(Store, "Error: destroyed"), call)
                             /\ UNCHANGED <<frames, unsubs, ops>>
       ELSE /\ Commit([Store EXCEPT !.batching = TRUE], call)
            /\ frames' = Append(frames, batching)
            /\ UNCHANGED <<unsubs, ops>>

\* fn returns or throws, and the finally block runs
PlusBatchExit(fnThrows) ==
    LET S == PlusBatchFinally(Store, frames[Len(frames)],
                              IF fnThrows THEN "Error: fn" ELSE "none")
    IN /\ frames # <<>>
       /\ Commit(S, Call("plus.batchExit", <<>>, UNDEF, IF fnThrows THEN "throws" ELSE "returns"))
       /\ frames' = SubSeq(frames, 1, Len(frames) - 1)
       /\ unsubs' = IF S.plusDestroyed THEN {} ELSE unsubs
       /\ UNCHANGED ops

PlusSetMany(entries) ==
    PlusCommit(PlusSetManyCall(Store, entries), Call("plus.setMany", <<>>, UNDEF, entries.kind))

PlusDestroy == PlusCommit(PlusDestroyCall(Store), Call("plus.destroy", <<>>, UNDEF, "-"))

\* base.set(path, value) and base.destroy() called on the base itself
BaseSetDirect(path, value) ==
    PlusCommit(BaseSet(Store, path, value), Call("base.set", path, value, "-"))

BaseDestroyDirect == PlusCommit(BaseDestroy(Store), Call("base.destroy", <<>>, UNDEF, "-"))

PlusPaths == {<<>>, <<"a">>, <<"a", "b">>}
PlusValues == {Prim("5")}
\* subscribe(key, handler) calls made through the facade: three handlers that
\* share the Set of an exact key, two under the global key
PlusSubscriptions ==
    {<<<<"a">>, "hBaseDestroy">>, <<<<"a">>, "hPlusDestroy">>, <<<<"a">>, "h1">>,
     <<<<"*">>, "h1">>, <<<<"*">>, "hThrow">>}
PlusEntries ==
    {[kind |-> "falsy", items |-> <<>>],
     [kind |-> "array", items |-> <<<<<<"a", "b">>, Prim("5")>>, <<<<"a">>, Prim("5")>>>>]}

NextPlus ==
    \/ \E p \in PlusPaths : PlusGet(p)
    \/ \E p \in PlusPaths, v \in PlusValues : PlusSet(p, v)
    \/ \E s \in PlusSubscriptions :
          /\ Cardinality(unsubs) < MaxSubs
          /\ s \notin unsubs
          /\ PlusSubscribe(s[1], s[2], TRUE)
    \/ \E s \in PlusSubscriptions : PlusOff(s[1], s[2])
    \/ Len(frames) < MaxDepth /\ PlusBatchEnter
    \/ \E t \in BOOLEAN : PlusBatchExit(t)
    \/ \E e \in PlusEntries : PlusSetMany(e)
    \/ PlusDestroy
    \/ \E p \in PlusPaths, v \in PlusValues : BaseSetDirect(p, v)
    \/ BaseDestroyDirect

SpecPlus == Init /\ [][NextPlus]_vars

PlusGuarded == {"plus.get", "plus.set", "plus.subscribe", "plus.batch", "plus.setMany"}

\* C32: once facade.destroy() has run, the facade's destroyed flag stays true,
\* every facade get, set, subscribe, batch and setMany throws, the tree never
\* changes again (so no write buffered in an open batch is applied) and no
\* handler subscribed through the facade is invoked again, be it in a later
\* call or in the rest of the call within which destroy() ran.
C32_PlusDestroy ==
    [][/\ plusDestroyed => plusDestroyed'
       /\ (plusDestroyed /\ lastOp'.op \in PlusGuarded) => lastOp'.result # "none"
       /\ plusDestroyed => (state' = state /\ log' = <<>>)
       /\ \A i, j \in DOMAIN log' :
              (i < j /\ log'[i].ev = "destroy") => log'[j].ev \notin {"call", "write"}]_vars

\* C40: while a batch(fn) of an upgraded facade is open, a set made through
\* the facade is only buffered (the tree and the handlers are left alone); a
\* set made directly on the base writes the tree at once, notifies the
\* handlers of its path and is not buffered; and the flush of the outermost
\* batch writes every buffered entry, over what the base was given meanwhile.
C40_UpgradedBatchScope ==
    [][(frames # <<>> /\ ~plusDestroyed /\ ~destroyed) =>
          /\ (lastOp'.op = "plus.set" /\ lastOp'.path # <<>>) =>
                /\ state' = state /\ log' = <<>>
                /\ \E i \in DOMAIN batchBuffer' :
                       batchBuffer'[i] = <<lastOp'.path, lastOp'.value>>
          /\ (lastOp'.op = "base.set" /\ lastOp'.path # <<>>) =>
                /\ log' # <<>> /\ log'[1] = WriteEvent(lastOp'.path, lastOp'.value)
                /\ \A h \in Registered(lastOp'.path) :
                       \E i \in DOMAIN log' :
                           /\ log'[i].ev = "call"
                           /\ log'[i].key = lastOp'.path /\ log'[i].h = h
                /\ ~plusDestroyed' => batchBuffer' = batchBuffer
          /\ (lastOp'.op = "plus.batchExit" /\ Len(frames) = 1) =>
                \A i \in DOMAIN batchBuffer :
                    \E j \in DOMAIN log' :
                        log'[j] = WriteEvent(batchBuffer[i][1], batchBuffer[i][2])]_vars

----------------------------------------------------------------------------
(* SpecAsync: every call of the store, with setAsync operations in flight   *)

AsyncPaths == {<<>>, <<"d">>}
AsyncData == {Prim("x"), Prim("y")}
FetchErrors == {"AbortError", "Error: fetch"}

AsyncEntries ==
    {[kind |-> "falsy", items |-> <<>>],
     [kind |-> "array", items |-> << <<<<"n">>, Prim("5")>> >>]}

NextAsync ==
    \/ Get(<<"d", "status">>)
    \/ \E p \in {<<>>, <<"n">>} : Set(p, Prim("5"))
    \/ \E f \in BOOLEAN : unsubs = {} /\ Subscribe(<<"*">>, "h1", f)
    \/ Unsubscribe(<<"*">>, "h1")
    \/ \E f \in BOOLEAN : frames = <<>> /\ BatchEnter(f)
    \/ BatchExit(FALSE)
    \/ \E e \in AsyncEntries : SetMany(e)
    \/ \E p \in AsyncPaths, f \in BOOLEAN : Len(ops) < MaxAsync /\ SetAsync(p, f)
    \/ \E c \in DOMAIN ops, x \in AsyncData : FetchResolves(c, x)
    \/ \E c \in DOMAIN ops, e \in FetchErrors : FetchRejects(c, e)
    \/ \E p \in AsyncPaths : Cancel(p)
    \/ Destroy

SpecAsync == Init /\ [][NextAsync]_vars

----------------------------------------------------------------------------
(* setAsync operations racing on one path, and the destroyed store *)

\* C9: once the later of two setAsync operations on a path has resolved, the
\* path's status is "success" and its data is the later operation's result, and
\* the step in which the earlier operation settles changes neither.
C9_LastRequestWins ==
    [][\A slow, fast \in DOMAIN ops :
          (slow < fast /\ ops[slow].path = ops[fast].path) =>
              LET status == Append(ops[fast].path, "status")
                  data == Append(ops[fast].path, "data")
              IN /\ (ops[fast].outcome = "pending" /\ ops'[fast].outcome = "resolved") =>
                        /\ SubTree(state', status) = Prim("success")
                        /\ SubTree(state', data) = ops'[fast].data
                 /\ (/\ ops[fast].outcome = "resolved"
                     /\ ops[slow].outcome = "pending"
                     /\ ops'[slow].outcome # "pending") =>
                        /\ SubTree(state', status) = SubTree(state, status)
                        /\ SubTree(state', data) = SubTree(state, data)]_vars

\* C14: on a live store set with a falsy path returns the value, leaves the
\* tree and the batch buffer as they are and invokes no handler, inside a batch
\* body and outside.
C14_FalsyPath ==
    [][(lastOp'.op = "set" /\ lastOp'.path = <<>> /\ ~destroyed) =>
          /\ lastOp'.result = "none" /\ lastOp'.ret = lastOp'.value
          /\ state' = state /\ batchBuffer' = batchBuffer
          /\ log' = <<>>]_vars

\* set('', v) has returned v inside a batch body that has buffered a write,
\* with a handler registered under "*"
C14_Witness ==
    /\ lastOp.op = "set" /\ lastOp.path = <<>>
    /\ lastOp.result = "none" /\ lastOp.ret = lastOp.value
    /\ frames # <<>> /\ batching /\ batchBuffer # <<>>
    /\ Registered(<<"*">>) # {}
    /\ log = <<>>

\* every tree write of the call recorded in l comes before every handler invocation
WritesBeforeCalls(l) ==
    \A i, j \in DOMAIN l : (l[i].ev = "write" /\ l[j].ev = "call") => i < j

\* C19: setAsync(path, fetcher) called on a live store outside any batch, with
\* a path and a function, returns with the fetcher pending, <path>.status =
\* "loading" and <path>.error = null, and no handler is invoked between the
\* two writes.
C19_LoadingPhase ==
    [][(/\ lastOp'.op = "setAsync" /\ ~destroyed /\ frames = <<>>
        /\ Len(ops') > Len(ops)) =>
          LET path == lastOp'.path
          IN /\ lastOp'.result = "none"
             /\ ops'[Len(ops')].path = path /\ ops'[Len(ops')].outcome = "pending"
             /\ SubTree(state', Append(path, "status")) = Prim("loading")
             /\ SubTree(state', Append(path, "error")) = NULL
             /\ WritesOf(log') = << <<Append(path, "status"), Prim("loading")>>,
                                    <<Append(path, "error"), NULL>> >>
             /\ WritesBeforeCalls(log')]_vars

\* C20: when the fetcher of an operation that was not aborted (superseded,
\* cancelled) resolves with d on a live store, setAsync writes <path>.data = d
\* and <path>.status = "success" in one flush, and its promise resolves with d.
C20_Success ==
    [][(/\ lastOp'.op = "resolved" /\ ~destroyed
        /\ \E c \in DOMAIN ops :
               ops[c].outcome = "pending" /\ ops'[c].outcome # "pending" /\ ~ops[c].aborted) =>
          LET path == lastOp'.path
          IN /\ lastOp'.result = "none" /\ lastOp'.ret = lastOp'.value
             /\ SubTree(state', Append(path, "data")) = lastOp'.value
             /\ SubTree(state', Append(path, "status")) = Prim("success")
             /\ WritesOf(log') = << <<Append(path, "data"), lastOp'.value>>,
                                    <<Append(path, "status"), Prim("success")>> >>]_vars

\* the only operation on a path has resolved: status "success", the promise
\* resolved with the data, a "*" handler invoked twice, the record removed
C20_Witness ==
    /\ lastOp.op = "resolved" /\ lastOp.result = "none" /\ lastOp.ret = lastOp.value
    /\ Len(ops) = 1 /\ ops[1].outcome = "resolved" /\ ~ops[1].aborted
    /\ SubTree(state, Append(lastOp.path, "data")) = lastOp.value
    /\ Cardinality(CallsOf(<<"*">>, "h1")) = 2
    /\ lastOp.path \notin DOMAIN asyncOps

\* C21: when the fetcher rejects with an error e that is not an abort, on a
\* live store, setAsync writes <path>.status = "error" and <path>.error = e's
\* message in one flush, leaves <path>.data as it is, and its promise rejects
\* with e.
C21_Failure ==
    [][(lastOp'.op = "rejected" /\ lastOp'.h # "AbortError" /\ ~destroyed) =>
          LET path == lastOp'.path
          IN /\ lastOp'.result = lastOp'.h
             /\ SubTree(state', Append(path, "status")) = Prim("error")
             /\ SubTree(state', Append(path, "error")) = Prim(lastOp'.h)
             /\ SubTree(state', Append(path, "data")) = SubTree(state, Append(path, "data"))
             /\ WritesOf(log') = << <<Append(path, "status"), Prim("error")>>,
                                    <<Append(path, "error"), Prim(lastOp'.h)>> >>]_vars

\* an operation has failed on a path that holds the data of an earlier success
C21_Witness ==
    /\ lastOp.op = "rejected" /\ lastOp.h = "Error: fetch" /\ lastOp.result = "Error: fetch"
    /\ SubTree(state, Append(lastOp.path, "status")) = Prim("error")
    /\ SubTree(state, Append(lastOp.path, "error")) = Prim("Error: fetch")
    /\ SubTree(state, Append(lastOp.path, "data")) \in AsyncData
    /\ ops[1].outcome = "resolved" /\ ops[2].outcome = "Error: fetch"

\* C22: the promise of a setAsync call that was superseded or cancelled while
\* its fetcher was pending rejects with an AbortError, however the fetcher settles.
C22_CancelledOutcome ==
    [][\A c \in DOMAIN ops :
          (/\ ~destroyed /\ ops[c].aborted
           /\ ops[c].outcome = "pending" /\ ops'[c].outcome # "pending") =>
              ops'[c].outcome = "AbortError"]_vars

\* the setAsync calls of o started on path p, and the latest of them
OpsOn(o, p) == {c \in DOMAIN o : o[c].path = p}
LatestOn(o, p) == CHOOSE c \in OpsOn(o, p) : \A x \in OpsOn(o, p) : x <= c

\* starting a setAsync aborts the operation recorded at its path
StartAborts ==
    (lastOp'.op = "setAsync" /\ Len(ops') > Len(ops)) =>
        /\ asyncOps'[lastOp'.path] = Len(ops')
        /\ \A c \in DOMAIN ops :
               (lastOp'.path \in DOMAIN asyncOps /\ asyncOps[lastOp'.path] = c) => ops'[c].aborted

\* an operation that finishes removes the record of its path only when the
\* record is its own
FinishKeepsNewer ==
    \A c \in DOMAIN ops :
        (ops[c].outcome = "pending" /\ ops'[c].outcome # "pending" /\ ~destroyed) =>
            \A p \in DOMAIN asyncOps : asyncOps[p] # c => (p \in DOMAIN asyncOps' /\ asyncOps'[p] = asyncOps[p])

\* C23, as the claim has it: while any setAsync on a path is unfinished the
\* record of the path refers to the most recently started one; starting a
\* setAsync aborts the recorded one; an older operation that finishes leaves
\* the newer one's record in place.
C23_RecordWhileUnfinished ==
    [][/\ \A p \in {ops'[c].path : c \in {x \in DOMAIN ops' : ops'[x].outcome = "pending"}} :
              p \in DOMAIN asyncOps' /\ asyncOps'[p] = LatestOn(ops', p)
       /\ StartAborts
       /\ FinishKeepsNewer]_vars

\* C23, amended: a record always refers to the most recently started setAsync
\* on its path, which is unfinished and not aborted; and while the most
\* recently started setAsync on a path is unfinished and not aborted the
\* record of the path refers to it.  Starting a setAsync aborts the recorded
\* one; an older operation that finishes leaves the newer one's record in place.
C23_Record ==
    [][/\ \A p \in DOMAIN asyncOps' :
              /\ OpsOn(ops', p) # {} /\ asyncOps'[p] = LatestOn(ops', p)
              /\ ops'[asyncOps'[p]].outcome = "pending" /\ ~ops'[asyncOps'[p]].aborted
       /\ \A c \in DOMAIN ops' :
              (/\ c = LatestOn(ops', ops'[c].path)
               /\ ops'[c].outcome = "pending" /\ ~ops'[c].aborted) =>
                  (ops'[c].path \in DOMAIN asyncOps' /\ asyncOps'[ops'[c].path] = c)
       /\ StartAborts
       /\ FinishKeepsNewer]_vars

\* the older of two operations on a path has finished and the record still
\* refers to the newer one, which is pending
C23_Witness ==
    /\ lastOp.op \in {"resolved", "rejected"}
    /\ Len(ops) = 2 /\ ops[1].path = ops[2].path
    /\ ops[1].outcome # "pending" /\ ops[2].outcome = "pending"
    /\ ops[1].path \in DOMAIN asyncOps /\ asyncOps[ops[1].path] = 2

\* C24: cancel(path) with an operation recorded at path aborts that
\* operation's signal, removes the record and sets <path>.status to
\* 'cancelled' through set (written and notified at once outside a batch,
\* buffered inside one); with nothing recorded at path it changes neither the
\* tree nor the record, aborts nothing and notifies no subscriber.
C24_Cancel ==
    [][(lastOp'.op = "cancel" /\ ~destroyed /\ lastOp'.path # <<>>) =>
          LET path == lastOp'.path
              status == Append(path, "status")
          IN IF path \in DOMAIN asyncOps
             THEN /\ ops'[asyncOps[path]].aborted
                  /\ asyncOps' = [q \in DOMAIN asyncOps \ {path} |-> asyncOps[q]]
                  /\ lastOp'.result = "none"
                  /\ IF batching
                     THEN /\ \E i \in DOMAIN batchBuffer' : batchBuffer'[i] = <<status, Prim("cancelled")>>
                          /\ state' = state /\ log' = <<>>
                     ELSE /\ SubTree(state', status) = Prim("cancelled")
                          /\ WritesOf(log') = << <<status, Prim("cancelled")>> >>
                          /\ \A k \in DOMAIN listeners : \A i \in DOMAIN listeners[k] :
                                 \E j \in DOMAIN log' : /\ log'[j].ev = "call" /\ log'[j].h = listeners[k][i]
                                                        /\ log'[j].path = status
             ELSE /\ UNCHANGED <<state, asyncOps, ops, batchBuffer, listeners>>
                  /\ log' = <<>>
                  /\ lastOp'.result = "none"]_vars

\* cancel found an operation recorded, outside a batch, with a subscriber listening
C24_Witness ==
    /\ lastOp.op = "cancel" /\ lastOp.result = "none" /\ ~lastOp.batching
    /\ Len(ops) = 1 /\ ops[1].aborted /\ ops[1].outcome = "pending"
    /\ asyncOps = <<>>
    /\ SubTree(state, Append(lastOp.path, "status")) = Prim("cancelled")
    /\ \E j \in DOMAIN log : log[j].ev = "call" /\ log[j].path = Append(lastOp.path, "status")

\* C25: outside batches, <path>.status of a path used only through setAsync
\* and cancel changes only to 'loading', by a setAsync call on that path, or
\* from 'loading' to one of 'success', 'error', 'cancelled'.
C25_StatusMachine ==
    [][\A p \in AsyncPaths \ {<<>>} :
          LET old == SubTree(state, Append(p, "status"))
              new == SubTree(state', Append(p, "status"))
          IN (frames = <<>> /\ frames' = <<>> /\ new # old) =>
                \/ new = Prim("loading") /\ lastOp'.op = "setAsync" /\ lastOp'.path = p
                \/ /\ old = Prim("loading")
                   /\ new \in {Prim("success"), Prim("error"), Prim("cancelled")}]_vars

\* C27: destroy() aborts the signal of every recorded operation and empties
\* the record; when the fetcher of a setAsync call settles on a destroyed
\* store the call writes nothing to the tree, notifies nobody, and its promise
\* rejects.
C27_DestroyCancels ==
    [][/\ (lastOp'.op = "destroy" /\ ~destroyed) =>
             /\ asyncOps' = <<>>
             /\ \A p \in DOMAIN asyncOps : ops'[asyncOps[p]].aborted
       /\ (lastOp'.op \in {"resolved", "rejected"} /\ destroyed) =>
             /\ state' = state /\ log' = <<>> /\ batchBuffer' = batchBuffer
             /\ lastOp'.result # "none"
             /\ \A c \in DOMAIN ops : ops'[c].outcome # "resolved"
                                      \/ ops[c].outcome = "resolved"]_vars

\* an operation was loading when the store was destroyed; its fetcher then
\* resolved, the promise rejected and the status is still 'loading'
C27_Witness ==
    /\ destroyed /\ lastOp.op = "resolved" /\ lastOp.result = "Error: destroyed"
    /\ asyncOps = <<>>
    /\ \E c \in DOMAIN ops : /\ ops[c].aborted /\ ops[c].outcome = "Error: destroyed"
                              /\ SubTree(state, Append(ops[c].path, "status")) = Prim("loading")

\* C30: a handler subscribed under an exact key is invoked only by a write
\* of that very path: every call of a handler registered under a key that is
\* neither 'x.*' nor '*' is for a write whose path is the key, and a set call
\* invokes such handlers for its own path only.
C30_ExactSelective ==
    \A j \in DOMAIN log :
        (log[j].ev = "call" /\ log[j].key # <<"*">> /\ log[j].key[Len(log[j].key)] # "*") =>
            /\ log[j].key = log[j].path
            /\ lastOp.op = "set" => log[j].key = lastOp.path

\* a set on a descendant of a subscribed exact key went through and called nobody
C30_Witness ==
    /\ lastOp.op = "set" /\ lastOp.result = "none"
    /\ lastOp.path = <<"a", "b", "c">>
    /\ TreeKey \in DOMAIN listeners /\ listeners[TreeKey] = <<"h1">>
    /\ WritesOf(log) = << <<lastOp.path, lastOp.value>> >>
    /\ \A j \in DOMAIN log : log[j].ev # "call"

\* C31, as the claim has it: within one set call the ancestor-wildcard
\* handlers run innermost ancestor first, outermost last.
C31_InnermostFirst ==
    WroteSet =>
        \A i, j \in DOMAIN log :
            (i < j /\ IsWildcardCall(i) /\ IsWildcardCall(j)) => Len(log[i].key) >= Len(log[j].key)

\* C31, amended: within one set call the ancestor-wildcard handlers run
\* outermost ancestor first, innermost last.
C31_OutermostFirst ==
    WroteSet =>
        \A i, j \in DOMAIN log :
            (i < j /\ IsWildcardCall(i) /\ IsWildcardCall(j)) => Len(log[i].key) <= Len(log[j].key)

\* set('a.b.c', v) has invoked a handler under a.* and then one under a.b.*
C31_Witness ==
    /\ WroteSet /\ lastOp.path = <<"a", "b", "c">>
    /\ \E i, j \in DOMAIN log :
           /\ i < j /\ log[i].ev = "call" /\ log[j].ev = "call"
           /\ log[i].key = <<"a", "*">> /\ log[j].key = <<"a", "b", "*">>

\* C33: when the body of an outermost batch throws, the writes buffered before
\* the throw are applied to the tree in the flush, every one of them, and the
\* handlers under each written path are invoked once for it.
C33_FailedBatchFlushes ==
    [][(Len(frames) = 1 /\ lastOp'.op = "batchExit" /\ lastOp'.h = "throws") =>
          /\ WritesOf(log') = batchBuffer
          /\ batchBuffer' = <<>>
          /\ \A k \in 1..Len(batchBuffer) :
                 Cardinality({i \in DOMAIN log' : log'[i].ev = "call" /\ log'[i].key = batchBuffer[k][1]})
                     = Len(ListenersAt(listeners, batchBuffer[k][1]))]_vars

\* C34: when a non-batched set(p, v) returns on a live store, the value last
\* delivered to each exact subscriber of p is what get(p) returns, also when a
\* subscriber of p called set(p, w) during the pass.
C34_NoStaleDelivery ==
    (lastOp.op = "set" /\ ~lastOp.batching /\ lastOp.result = "none" /\ ~destroyed) =>
        \A j \in DOMAIN log :
            (/\ log[j].ev = "call" /\ log[j].key = lastOp.path
             /\ \A k \in DOMAIN log :
                    (k > j /\ log[k].ev = "call" /\ log[k].key = lastOp.path) => log[k].h # log[j].h) =>
                log[j].value = GetCall(Store, lastOp.path).ret

\* C35: after destroy() the tree is never modified again: no call on a
\* destroyed store changes it, and within a call no write follows the
\* invocation of a handler that called destroy(), the rest of a batch flush
\* included.
C35_NoMutationAfterDestroy ==
    [][/\ destroyed => state' = state
       /\ \A i, j \in DOMAIN log' :
              (i < j /\ log'[i].ev = "call" /\ log'[i].h = "hDestroy") => log'[j].ev # "write"]_vars

\* C36: a handler subscribed twice under a key is registered once there; a
\* non-batched set invokes each handler at most once under a key; a call of a
\* closure takes its handler out of the key altogether, whether or not a
\* second closure of the same subscription is held; and a set then does not
\* invoke the handler although the other closure is still held.
C36_DuplicateRegistration ==
    [][/\ \A k \in DOMAIN listeners' : \A i, j \in DOMAIN listeners'[k] :
              listeners'[k][i] = listeners'[k][j] => i = j
       /\ (lastOp'.op = "set" /\ ~batching) =>
              \A i, j \in DOMAIN log' :
                  (/\ log'[i].ev = "call" /\ log'[j].ev = "call"
                   /\ log'[i].key = log'[j].key /\ log'[i].h = log'[j].h) => i = j
       /\ lastOp'.op = "unsubscribe" =>
              \E s \in unsubs :
                  /\ Len(s) = 2
                  /\ s[2] \notin {ListenersAt(listeners', s[1])[i] :
                                     i \in 1..Len(ListenersAt(listeners', s[1]))}
                  /\ \A k \in DOMAIN listeners \cup DOMAIN listeners' :
                         ListenersAt(listeners', k) =
                             IF k = s[1]
                             THEN SelectSeq(ListenersAt(listeners, k), LAMBDA x : x # s[2])
                             ELSE ListenersAt(listeners, k)
       /\ lastOp'.op \in {"set", "batchExit", "setMany"} =>
              \A s \in unsubs :
                  (Len(s) = 3 /\ s[2] \notin Registered(s[1])) =>
                      \A i \in DOMAIN log' :
                          ~(log'[i].ev = "call" /\ log'[i].key = s[1] /\ log'[i].h = s[2])]_vars

\* h1 was subscribed twice under a.b and one closure was called: both closures
\* are held, h1 is not registered, and a set on a.b has invoked nobody
C36_Witness ==
    /\ WroteSet /\ lastOp.path = <<"a", "b">>
    /\ <<lastOp.path, "h1">> \in unsubs /\ <<lastOp.path, "h1", 2>> \in unsubs
    /\ "h1" \notin Registered(lastOp.path)
    /\ \A i \in DOMAIN log : log[i].ev # "call"

\* C10: a destroyed store stays destroyed; every get, set, subscribe, batch,
\* setMany and cancel called on it throws, every setAsync called on it rejects,
\* whatever the arguments; destroy called on it returns and changes nothing.
C10_DestroyedGuard ==
    [][destroyed =>
          /\ destroyed'
          /\ lastOp'.op \in {"get", "set", "subscribe", "batch", "setMany", "cancel", "setAsync"}
                => lastOp'.result = "Error: destroyed"
          /\ lastOp'.op = "destroy" =>
                /\ lastOp'.result = "none"
                /\ UNCHANGED <<state, listeners, asyncOps, batching, batchBuffer, ops>>]_vars

\* setAsync was called on a store destroyed with an operation in flight, and rejected
C10_Witness ==
    /\ destroyed
    /\ lastOp.op = "setAsync" /\ lastOp.path # <<>> /\ lastOp.result = "Error: destroyed"
    /\ \E c \in DOMAIN ops : ops[c].aborted /\ ops[c].outcome = "pending"

====
